---- MODULE Spec2Model ----
(***************************************************************************)
(* Catalog cross-match pipeline of the Stellar-Evolution scripts:          *)
(* src/src/crossmatch_gaia_sdss_debug.py (load_table, run_crossmatch),     *)
(* and the feature derivers src/src/process_gaia_data.py and               *)
(* src/src/process_data.py (their units are given with their section).     *)
(*                                                                         *)
(* Units.  Sky positions are integers in units of 0.0001 degree, so the    *)
(* full circle is 3600000 units and the poles are at +-900000.  Radii and  *)
(* separations are integers in units of 0.01 arcsec; one position unit is  *)
(* 0.36 arcsec = 36 separation units.  Separations are computed with the   *)
(* small-angle (flat sky) formula, exact on the equator.                   *)
(*                                                                         *)
(* Row labels and positions are 0-based as in pandas; the p-th record of a *)
(* frame is rows[p + 1].                                                   *)
(***************************************************************************)
EXTENDS Integers, Sequences, FiniteSets, TLC

VARIABLES
    gaiaFile,       \* the CSV at gaia_csv: [exists, cols, rows]
    sdssFile,       \* the CSV at sdss_csv
    radiusList,     \* radius_list_arcsec
    pc,             \* position in run_crossmatch
    gaia,           \* result of load_table(gaia_csv, "Gaia")
    sdss,           \* result of load_table(sdss_csv, "SDSS")
    coords,         \* [gaia |-> c_gaia, sdss |-> c_sdss]
    i,              \* number of radii of radiusList already tried
    best,           \* [matches, radius, count]: best_matches, best_radius, best_count
    resultDetails,  \* result_details: the dict as [key, val] items in insertion order
    outJoined,      \* the file at out_csv
    outUnmatched,   \* data/processed/gaia_unmatched.csv
    printed,        \* the no-match summary printed at lines 121-123
    err,            \* the exception run_crossmatch ended with
    ret,            \* the value run_crossmatch returned
    procFile,       \* the CSV at input_csv of process_gaia_csv
    procPc,         \* position in process_gaia_csv
    procDf,         \* df of process_gaia_csv
    procOut,        \* the file at output_csv
    procErr,        \* the exception process_gaia_csv ended with
    procRuns,       \* the tables returned by the calls of process_gaia_csv so far
    toyFile,        \* the CSV at input_csv of load_and_process
    toyPc,          \* position in load_and_process
    toyOut,         \* data/processed/processed_stars.csv
    toyErr,         \* the exception load_and_process ended with
    mass,           \* argument of a direct call of estimate_evolution_probs
    probs,          \* the value that call returned
    nnPc,           \* position in crossmatch (crossmatch_gaia_sdss.py)
    nnRadius,       \* radius_arcsec of crossmatch
    nnOut,          \* the table crossmatch wrote to out_csv and returned
    nnErr,          \* the exception crossmatch ended with
    simRow,         \* the row given to simulate_one
    sim,            \* the value simulate_one returned
    labels,         \* the values the label functions and end_prob returned for mass
    prep            \* prepare_data of train_model_gaia.py: position and results

crossVars == <<gaiaFile, sdssFile, radiusList, pc, gaia, sdss, coords, i, best,
               resultDetails, outJoined, outUnmatched, printed, err, ret>>

deriveVars == <<procFile, procPc, procDf, procOut, procErr, procRuns,
                toyFile, toyPc, toyOut, toyErr, mass, probs>>

nnVars == <<nnPc, nnRadius, nnOut, nnErr>>

trainVars == <<simRow, sim, labels, prep>>

restVars == <<nnVars, trainVars>>

vars == <<crossVars, deriveVars, restVars>>

(***************************************************************************)
(* Bounds of the model.                                                    *)
(***************************************************************************)
MaxGaiaRows == 2
MaxSdssRows == 2
MaxRadii == 2
MaxLoadRows == 2
MaxProcRows == 2
MaxToyRows == 2
MaxRuns == 2

(***************************************************************************)
(* Cell values.  A CSV cell read by pandas is a number, an infinity, a     *)
(* non-numeric text or NaN (an empty cell).                                *)
(***************************************************************************)
Num(n) == [k |-> "num", v |-> n]
Inf == [k |-> "inf", v |-> 0]
Text == [k |-> "text", v |-> 0]
NaN == [k |-> "nan", v |-> 0]

None == "None"

\* pd.to_numeric(x, errors='coerce'): text that does not parse becomes NaN.
to_numeric(x) == IF x.k = "text" THEN NaN ELSE x

\* Mutant: no value counts as null.
notnull_always(x) == TRUE

\* Series.notnull(): NaN is null; an infinity is not.
notnull(x) == x.k # "nan"

RA_CANDIDATES == <<"ra", "RA", "RAJ2000", "ra_deg", "ra_deg">>
DEC_CANDIDATES == <<"dec", "DEC", "DEJ2000", "dec_deg", "dec_deg">>

Range(s) == {s[n] : n \in DOMAIN s}

\* next((c for c in candidates if c in cols), None), scanning from position n.
RECURSIVE FirstFrom(_, _, _)
FirstFrom(candidates, cols, n) ==
    IF n > Len(candidates) THEN None
    ELSE IF candidates[n] \in cols THEN candidates[n]
    ELSE FirstFrom(candidates, cols, n + 1)

\* Mutant: the last candidate present wins instead of the first.
RECURSIVE LastFrom(_, _, _)
LastFrom(candidates, cols, n) ==
    IF n < 1 THEN None
    ELSE IF candidates[n] \in cols THEN candidates[n]
    ELSE LastFrom(candidates, cols, n - 1)

find_ra_dec_cols_last(cols) ==
    <<LastFrom(RA_CANDIDATES, cols, Len(RA_CANDIDATES)),
      LastFrom(DEC_CANDIDATES, cols, Len(DEC_CANDIDATES))>>

find_ra_dec_cols(cols) ==
    <<FirstFrom(RA_CANDIDATES, cols, 1), FirstFrom(DEC_CANDIDATES, cols, 1)>>

(***************************************************************************)
(* Data frames: [cols, index, rows]; index[p + 1] is the label of the      *)
(* record at position p, rows[p + 1] maps each column to its value.        *)
(***************************************************************************)
EmptyFrame == [cols |-> {}, index |-> <<>>, rows |-> <<>>]

NotLoaded ==
    [err |-> "not_loaded", df |-> EmptyFrame, ra_col |-> None, dec_col |-> None,
     bad_count |-> 0]

Positions1(n) == [p \in 1..n |-> p]

\* load_table(path, which) on the file f.
load_table(f) ==
    IF ~f.exists
    THEN [NotLoaded EXCEPT !.err = "FileNotFoundError"]
    ELSE
      LET cc == find_ra_dec_cols(f.cols)
          ra_col == cc[1]
          dec_col == cc[2]
      IN
      IF ra_col = None \/ dec_col = None
      THEN [NotLoaded EXCEPT !.err = "ValueError"]
      ELSE
        LET mask_good(p) == /\ notnull(to_numeric(f.rows[p][ra_col]))
                            /\ notnull(to_numeric(f.rows[p][dec_col]))
            kept == SelectSeq(Positions1(Len(f.rows)), mask_good)
            bad_count == Len(f.rows) - Len(kept)
            \* astype(float) on the two position columns
            asfloat(row) == [c \in f.cols |->
                               IF c \in {ra_col, dec_col} THEN to_numeric(row[c])
                               ELSE row[c]]
        IN
        [err |-> "none",
         df |-> [cols |-> f.cols,
                 index |-> [n \in 1..Len(kept) |-> kept[n] - 1],
                 rows |-> [n \in 1..Len(kept) |-> asfloat(f.rows[kept[n]])]],
         ra_col |-> ra_col, dec_col |-> dec_col, bad_count |-> bad_count]

(***************************************************************************)
(* Sky coordinates and the radius search (astropy).                        *)
(***************************************************************************)
Abs(x) == IF x < 0 THEN -x ELSE x

\* SkyCoord(ra=df[ra_col].values * u.deg, dec=df[dec_col].values * u.deg):
\* a latitude outside [-90, 90] degrees or a non-finite angle is rejected,
\* a longitude is wrapped into [0, 360).
SkyCoord(t) ==
    LET n == Len(t.df.rows)
        ra(p) == t.df.rows[p][t.ra_col]
        dec(p) == t.df.rows[p][t.dec_col]
        valid(p) == /\ ra(p).k = "num"
                    /\ dec(p).k = "num"
                    /\ Abs(dec(p).v) <= 900000
    IN
    IF \E p \in 1..n : ~valid(p)
    THEN [ok |-> FALSE, pts |-> <<>>]
    ELSE [ok |-> TRUE,
          pts |-> [p \in 1..n |-> [ra |-> ra(p).v % 3600000, dec |-> dec(p).v]]]

\* Difference in right ascension, the short way round the circle.
DeltaRa(p, q) ==
    LET d == Abs(p.ra - q.ra) IN IF d > 1800000 THEN 3600000 - d ELSE d

SepSq(p, q) ==
    36 * 36 * (DeltaRa(p, q) * DeltaRa(p, q) + (p.dec - q.dec) * (p.dec - q.dec))

\* The separation of p and q is at most r.
Within(p, q, r) ==
    /\ 36 * DeltaRa(p, q) <= r
    /\ 36 * Abs(p.dec - q.dec) <= r
    /\ SepSq(p, q) <= r * r

\* The integer square root of x, known to lie in lo..hi.
RECURSIVE ISqrt(_, _, _)
ISqrt(x, lo, hi) ==
    IF lo >= hi THEN lo
    ELSE LET mid == (lo + hi + 1) \div 2 IN
         IF mid * mid <= x THEN ISqrt(x, mid, hi) ELSE ISqrt(x, lo, mid - 1)

\* sep2d.arcsecond of a pair of nearby points, rounded down to the separation unit.
SepOf(p, q) == ISqrt(SepSq(p, q), 0, 36 * (DeltaRa(p, q) + Abs(p.dec - q.dec)))

\* Mutant: pairs exactly seplimit apart are left out.
search_around_sky_strict(self, searcharoundcoords, seplimit) ==
    {<<a - 1, s - 1, SepOf(searcharoundcoords[a], self[s])>> :
        <<a, s>> \in {x \in (DOMAIN searcharoundcoords) \X (DOMAIN self) :
                        /\ Within(searcharoundcoords[x[1]], self[x[2]], seplimit)
                        /\ SepSq(searcharoundcoords[x[1]], self[x[2]]) < seplimit * seplimit}}

\* Mutant: the pairs at least seplimit apart are returned.
search_around_sky_flipped(self, searcharoundcoords, seplimit) ==
    {<<a - 1, s - 1, SepOf(searcharoundcoords[a], self[s])>> :
        <<a, s>> \in {x \in (DOMAIN searcharoundcoords) \X (DOMAIN self) :
                        SepSq(searcharoundcoords[x[1]], self[x[2]]) >= seplimit * seplimit}}

\* self.search_around_sky(searcharoundcoords, seplimit): every pair within
\* seplimit, as (idxsearcharound, idxself, sep2d): the FIRST index is into
\* searcharoundcoords, the SECOND into self.
search_around_sky(self, searcharoundcoords, seplimit) ==
    {<<a - 1, s - 1, SepOf(searcharoundcoords[a], self[s])>> :
        <<a, s>> \in {x \in (DOMAIN searcharoundcoords) \X (DOMAIN self) :
                        Within(searcharoundcoords[x[1]], self[x[2]], seplimit)}}

(***************************************************************************)
(* Merged frames.  A column of a merged frame is [pre, base, suf]: the     *)
(* name pre + base + suf, where base is a column name of an input file,    *)
(* pre is "", "gaia_" or "sdss_" and suf is "", "_gaia" or "_sdss".        *)
(* File column names neither start with such a prefix nor end with such a  *)
(* suffix, so the encoding is one to one.                                  *)
(***************************************************************************)
Plain(c) == [pre |-> "", base |-> c, suf |-> ""]

IsPlain(c) == c.pre = "" /\ c.suf = ""

\* df.reset_index(): the labels become the column 'index'; rows as a sequence
\* in position order.
reset_index(df) ==
    [cols |-> df.cols \cup {"index"},
     rows |-> [n \in DOMAIN df.rows |->
                 [c \in df.cols \cup {"index"} |->
                    IF c = "index" THEN Num(df.index[n]) ELSE df.rows[n][c]]]]

\* frame.rename(columns={old: new}) on a frame with plain column names.
rename(frame, old, new) ==
    LET from(c) == IF c = new THEN old ELSE c
        newcols == {IF c = old THEN new ELSE c : c \in frame.cols}
    IN [cols |-> newcols,
        rows |-> [n \in DOMAIN frame.rows |-> [c \in newcols |-> frame.rows[n][from(c)]]]]

\* L.merge(R, on=key, how='left', suffixes=(lsuf, rsuf)): L is a merged frame
\* (a set of rows), R a frame with plain column names.
merge_left(L, R, key, lsuf, rsuf) ==
    LET overlap == {c \in R.cols \ {key} : Plain(c) \in L.cols}
        lname(c) == IF IsPlain(c) /\ c.base \in overlap THEN [c EXCEPT !.suf = lsuf] ELSE c
        rname(c) == IF c \in overlap THEN [pre |-> "", base |-> c, suf |-> rsuf] ELSE Plain(c)
        lcols == {lname(c) : c \in L.cols}
        outcols == lcols \cup {rname(c) : c \in R.cols \ {key}}
        \* the left column an output column comes from, if any
        lsrc == [oc \in lcols |-> CHOOSE c \in L.cols : lname(c) = oc]
        joined(l, r) == [oc \in outcols |-> IF oc \in lcols THEN l[lsrc[oc]] ELSE r[oc.base]]
        nomatch(l) == [oc \in outcols |-> IF oc \in lcols THEN l[lsrc[oc]] ELSE NaN]
        hits(l) == {n \in DOMAIN R.rows : R.rows[n][key] = l[Plain(key)]}
        rowsFor(l) == IF hits(l) = {} THEN {nomatch(l)}
                      ELSE {joined(l, R.rows[n]) : n \in hits(l)}
    IN [cols |-> outcols, rows |-> UNION {rowsFor(l) : l \in L.rows}]

\* Series.nunique() of a column of a merged frame.
nunique(frame, c) == Cardinality({row[Plain(c)] : row \in frame.rows})

(***************************************************************************)
(* Input files of the model.                                               *)
(***************************************************************************)
RaNames == Range(RA_CANDIDATES)
DecNames == Range(DEC_CANDIDATES)

\* The n-th row of a file with the columns cols: the cell rc in every RA
\* column, the cell dc in every Dec column, the row number in every other one.
MkRow(cols, rc, dc, n) ==
    [c \in cols |-> IF c \in RaNames THEN rc
                    ELSE IF c \in DecNames THEN dc
                    ELSE Num(n)]

\* Every file with the columns cols and at most max rows drawn from kinds.
Files(cols, kinds, max) ==
    UNION {{[exists |-> TRUE, cols |-> cols,
             rows |-> [p \in 1..n |-> MkRow(cols, ks[p][1], ks[p][2], p)]] :
              ks \in [1..n -> kinds]} : n \in 0..max}

MissingFile == [exists |-> FALSE, cols |-> {}, rows |-> <<>>]

\* Rows of the cross-match runs: two positions 1.08 arcsec apart on the
\* equator (RA 180.0000 and 180.0003 degrees) and a row whose RA is no number;
\* the Gaia file may also hold a row whose Dec is 100 degrees.
SdssRowKinds ==
    {<<Num(1800000), Num(0)>>, <<Num(1800003), Num(0)>>, <<Text, Num(0)>>}
GaiaRowKinds == SdssRowKinds \cup {<<Num(1800000), Num(1000000)>>}

GaiaColumnSets == {{"ra", "dec", "source_id"}, {"source_id"}}
SdssColumnSets == {{"ra", "dec", "objid"}, {"objid"}}

GaiaFiles ==
    {MissingFile} \cup UNION {Files(cols, GaiaRowKinds, MaxGaiaRows) : cols \in GaiaColumnSets}
SdssFiles ==
    {MissingFile} \cup UNION {Files(cols, SdssRowKinds, MaxSdssRows) : cols \in SdssColumnSets}

\* Candidate radii: 0, 1.0 and 2.0 arcsec, in any order without repetition.
Radii == {0, 100, 200}
RadiusLists ==
    UNION {{s \in [1..n -> Radii] : \A a, b \in 1..n : a # b => s[a] # s[b]} :
             n \in 0..MaxRadii}

(***************************************************************************)
(* run_crossmatch, step by step.                                           *)
(***************************************************************************)
NoFile == [written |-> FALSE, cols |-> {}, rows |-> {}]
NoUnmatched == [written |-> FALSE, cols |-> {}, rows |-> <<>>]
NoFrame == [cols |-> {}, rows |-> {}]
NoBest == [isNone |-> TRUE, matches |-> NoFrame, radius |-> 0, count |-> 0]
NoErr == [type |-> "none", message |-> "none", payload |-> <<>>]
\* details: what the return value holds besides the joined table
NoRet == [returned |-> FALSE, cols |-> {}, rows |-> {}, details |-> <<>>]

\* The feature derivers (process_gaia_csv, load_and_process) are not called.
NoTable == [cols |-> {}, rows |-> <<>>]
NoOutput == [written |-> FALSE, cols |-> {}, rows |-> <<>>]

ProcIdle ==
    /\ procFile = MissingFile
    /\ procPc = "idle"
    /\ procDf = NoTable
    /\ procOut = NoOutput
    /\ procErr = NoErr
    /\ procRuns = <<>>

ToyIdle ==
    /\ toyFile = MissingFile
    /\ toyPc = "idle"
    /\ toyOut = NoOutput
    /\ toyErr = NoErr

ProbeIdle ==
    /\ mass = NaN
    /\ probs = <<>>

DeriveIdle == ProcIdle /\ ToyIdle /\ ProbeIdle

\* crossmatch (the nearest-neighbour script) is not called.
NearestIdle ==
    /\ nnPc = "idle"
    /\ nnRadius = 0
    /\ nnOut = NoOutput
    /\ nnErr = NoErr

NoRow == [mass_solar |-> NaN, teff |-> NaN, source_id |-> NaN]
NoSim == [returned |-> FALSE, source_id |-> 0, timeline |-> <<>>, end_state |-> None]
\* called: the functions that have returned
NoLabels == [called |-> {}, label_for_mass |-> None, label_for |-> None,
             label_for_classifier_rf |-> None, end_prob |-> [wd |-> 0, ns |-> 0, bh |-> 0]]
\* df: the table read; df_clean: its rows without missing features; X: the
\* numeric features; y, n_classes: the encoded labels
NoPrep == [pc |-> "idle", df |-> NoTable, feature_cols |-> <<>>, df_clean |-> <<>>,
           X |-> <<>>, y |-> <<>>, n_classes |-> 0, err |-> NoErr]

\* simulate_one, the label functions and prepare_data are not called.
TrainIdle ==
    /\ simRow = NoRow
    /\ sim = NoSim
    /\ labels = NoLabels
    /\ prep = NoPrep

RestIdle == NearestIdle /\ TrainIdle

Start ==
    /\ pc = "load_gaia"
    /\ gaia = NotLoaded
    /\ sdss = NotLoaded
    /\ coords = [gaia |-> <<>>, sdss |-> <<>>]
    /\ i = 0
    /\ best = NoBest
    /\ resultDetails = <<>>
    /\ outJoined = NoFile
    /\ outUnmatched = NoUnmatched
    /\ printed = <<>>
    /\ err = NoErr
    /\ ret = NoRet

Init ==
    /\ gaiaFile \in GaiaFiles
    /\ sdssFile \in SdssFiles
    /\ radiusList \in RadiusLists
    /\ Start
    /\ DeriveIdle
    /\ RestIdle

\* raise type(message): the exception carries its message and nothing else.
Raise(type, message) ==
    /\ pc' = "failed"
    /\ err' = [type |-> type, message |-> message, payload |-> <<>>]

\* line 54: gaia, gra, gdec = load_table(gaia_csv, "Gaia")
LoadGaia ==
    /\ pc = "load_gaia"
    /\ LET t == load_table(gaiaFile) IN
       IF t.err # "none"
       THEN /\ Raise(t.err, "Gaia file not found or RA/DEC columns not found")
            /\ UNCHANGED gaia
       ELSE /\ gaia' = t
            /\ pc' = "load_sdss"
            /\ UNCHANGED err
    /\ UNCHANGED <<gaiaFile, sdssFile, radiusList, sdss, coords, i, best,
                   resultDetails, outJoined, outUnmatched, printed, ret>>
    /\ UNCHANGED deriveVars
    /\ UNCHANGED restVars

\* line 55: sdss, sra, sdec = load_table(sdss_csv, "SDSS")
LoadSdss ==
    /\ pc = "load_sdss"
    /\ LET t == load_table(sdssFile) IN
       IF t.err # "none"
       THEN /\ Raise(t.err, "SDSS file not found or RA/DEC columns not found")
            /\ UNCHANGED sdss
       ELSE /\ sdss' = t
            /\ pc' = "coords"
            /\ UNCHANGED err
    /\ UNCHANGED <<gaiaFile, sdssFile, radiusList, gaia, coords, i, best,
                   resultDetails, outJoined, outUnmatched, printed, ret>>
    /\ UNCHANGED deriveVars
    /\ UNCHANGED restVars

\* lines 57-70: the SkyCoord objects and the initial best_* values
BuildCoords ==
    /\ pc = "coords"
    /\ LET cg == SkyCoord(gaia)
           cs == SkyCoord(sdss)
       IN
       IF ~cg.ok \/ ~cs.ok
       THEN /\ Raise("ValueError", "Latitude angle(s) must be within -90 deg <= angle <= 90 deg")
            /\ UNCHANGED coords
       ELSE /\ coords' = [gaia |-> cg.pts, sdss |-> cs.pts]
            /\ pc' = "loop"
            /\ UNCHANGED err
    /\ UNCHANGED <<gaiaFile, sdssFile, radiusList, gaia, sdss, i, best,
                   resultDetails, outJoined, outUnmatched, printed, ret>>
    /\ UNCHANGED deriveVars
    /\ UNCHANGED restVars

\* Mutant of DictSet: the dict forgets its earlier items.
DictSetOnly(d, key, val) == <<[key |-> key, val |-> val]>>

\* d[key] = val on a dict kept as a sequence of items in insertion order.
DictSet(d, key, val) ==
    IF \E n \in DOMAIN d : d[n].key = key
    THEN [n \in DOMAIN d |-> IF d[n].key = key THEN [key |-> key, val |-> val] ELSE d[n]]
    ELSE Append(d, [key |-> key, val |-> val])

\* info.get(field, default)
Get(info, field, default) == IF field \in DOMAIN info THEN info[field] ELSE default

MatchCols == {Plain("idx_gaia"), Plain("idx_sdss"), Plain("sep_arcsec")}

\* lines 77-82: idx_gaia, idx_sdss, sep2d, _ = c_gaia.search_around_sky(c_sdss, r)
\* and lines 94-98: the frame of the three arrays.  idx_gaia receives the first
\* array that search_around_sky returns, idx_sdss the second.
MatchFrame(c_gaia, c_sdss, r) ==
    [cols |-> MatchCols,
     rows |-> {[c \in MatchCols |->
                  IF c.base = "idx_gaia" THEN Num(m[1])
                  ELSE IF c.base = "idx_sdss" THEN Num(m[2])
                  ELSE Num(m[3])] :
               m \in search_around_sky(c_gaia, c_sdss, r)}]

\* lines 100-101: the two left merges on the labels of the loaded frames.
JoinRows(matches, gaia_df, sdss_df) ==
    merge_left(
        merge_left(matches, rename(reset_index(gaia_df), "index", "idx_gaia"),
                   "idx_gaia", "_x", "_y"),
        rename(reset_index(sdss_df), "index", "idx_sdss"),
        "idx_sdss", "_gaia", "_sdss")

\* lines 73-118: one iteration of the loop over radius_list_arcsec
TryRadius ==
    /\ pc = "loop"
    /\ i < Len(radiusList)
    /\ LET r_arcsec == radiusList[i + 1]
           matches == MatchFrame(coords.gaia, coords.sdss, r_arcsec)
           match_count == Cardinality(matches.rows)
           df_matches == JoinRows(matches, gaia.df, sdss.df)
           unique_gaia == nunique(df_matches, "idx_gaia")
           unique_sdss == nunique(df_matches, "idx_sdss")
       IN
       IF match_count = 0
       THEN /\ resultDetails' = DictSet(resultDetails, r_arcsec, [count |-> 0])
            /\ UNCHANGED best
       ELSE /\ resultDetails' =
                  DictSet(resultDetails, r_arcsec,
                          [count_pairs |-> match_count, unique_gaia |-> unique_gaia,
                           unique_sdss |-> unique_sdss, matches_df |-> df_matches])
            /\ IF unique_gaia > best.count
               THEN best' = [isNone |-> FALSE, matches |-> df_matches,
                             radius |-> r_arcsec, count |-> unique_gaia]
               ELSE UNCHANGED best
    /\ i' = i + 1
    /\ UNCHANGED <<gaiaFile, sdssFile, radiusList, pc, gaia, sdss, coords,
                   outJoined, outUnmatched, printed, err, ret>>
    /\ UNCHANGED deriveVars
    /\ UNCHANGED restVars

\* Mutant: a single unique match is reported as no match.
NoMatchBelowTwo ==
    /\ pc = "loop"
    /\ i = Len(radiusList)
    /\ best.isNone \/ best.count <= 1
    /\ printed' = [n \in DOMAIN resultDetails |->
                     [radius |-> resultDetails[n].key,
                      count_pairs |-> Get(resultDetails[n].val, "count_pairs", 0),
                      unique_gaia |-> Get(resultDetails[n].val, "unique_gaia", 0)]]
    /\ Raise("RuntimeError", "No matches found between Gaia and SDSS.")
    /\ UNCHANGED <<gaiaFile, sdssFile, radiusList, gaia, sdss, coords, i, best,
                   resultDetails, outJoined, outUnmatched, ret>>
    /\ UNCHANGED deriveVars
    /\ UNCHANGED restVars

\* lines 120-124: the summary is printed, the error carries a fixed message
NoMatch ==
    /\ pc = "loop"
    /\ i = Len(radiusList)
    /\ best.isNone \/ best.count = 0
    /\ printed' = [n \in DOMAIN resultDetails |->
                     [radius |-> resultDetails[n].key,
                      count_pairs |-> Get(resultDetails[n].val, "count_pairs", 0),
                      unique_gaia |-> Get(resultDetails[n].val, "unique_gaia", 0)]]
    /\ Raise("RuntimeError", "No matches found between Gaia and SDSS.")
    /\ UNCHANGED <<gaiaFile, sdssFile, radiusList, gaia, sdss, coords, i, best,
                   resultDetails, outJoined, outUnmatched, ret>>
    /\ UNCHANGED deriveVars
    /\ UNCHANGED restVars

\* out_df.rename(columns={col: prefix + col for col in names})
rename_prefix(frame, names, prefix) ==
    LET new(c) == IF IsPlain(c) /\ c.base \in names THEN [c EXCEPT !.pre = prefix] ELSE c
        newcols == {new(c) : c \in frame.cols}
        old(nc) == CHOOSE c \in frame.cols : new(c) = nc
    IN [cols |-> newcols,
        rows |-> {[nc \in newcols |-> row[old(nc)]] : row \in frame.rows}]

\* line 141: the columns that start with gaia_ or sdss_, and the three match columns
select_prefixed(frame) ==
    LET keep == {c \in frame.cols :
                   \/ c.pre \in {"gaia_", "sdss_"}
                   \/ IsPlain(c) /\ c.base \in {"sep_arcsec", "idx_gaia", "idx_sdss"}}
    IN [cols |-> keep, rows |-> {[c \in keep |-> row[c]] : row \in frame.rows}]

\* lines 131-141: out_df
out_df(best_matches, gaia_cols, sdss_cols) ==
    select_prefixed(
        rename_prefix(rename_prefix(best_matches, gaia_cols, "gaia_"), sdss_cols, "sdss_"))

\* lines 126-144: the joined table is written to out_csv
WriteJoined ==
    /\ pc = "loop"
    /\ i = Len(radiusList)
    /\ ~(best.isNone \/ best.count = 0)
    /\ LET out == out_df(best.matches, gaia.df.cols, sdss.df.cols) IN
       outJoined' = [written |-> TRUE, cols |-> out.cols, rows |-> out.rows]
    /\ pc' = "write_unmatched"
    /\ UNCHANGED <<gaiaFile, sdssFile, radiusList, gaia, sdss, coords, i, best,
                   resultDetails, outUnmatched, printed, err, ret>>
    /\ UNCHANGED deriveVars
    /\ UNCHANGED restVars

\* Ascending sequence of the elements of a finite set of integers.
RECURSIVE sorted(_)
sorted(S) ==
    IF S = {} THEN <<>>
    ELSE LET m == CHOOSE x \in S : \A y \in S : x <= y IN <<m>> \o sorted(S \ {m})

\* lines 147-150: gaia.reset_index().loc[unmatched_idxs].drop(columns=['index'])
gaia_unmatched(out, gaia_df) ==
    LET matched_gaia_idxs == {row[Plain("idx_gaia")].v : row \in out.rows}
        all_gaia_idxs == 0..(Len(gaia_df.rows) - 1)
        unmatched_idxs == sorted(all_gaia_idxs \ matched_gaia_idxs)
    IN [cols |-> gaia_df.cols,
        rows |-> [n \in DOMAIN unmatched_idxs |-> gaia_df.rows[unmatched_idxs[n] + 1]]]

\* lines 146-154: the unmatched table is written and out_df is returned
WriteUnmatched ==
    /\ pc = "write_unmatched"
    /\ LET out == out_df(best.matches, gaia.df.cols, sdss.df.cols)
           un == gaia_unmatched(out, gaia.df)
       IN
       /\ outUnmatched' = [written |-> TRUE, cols |-> un.cols, rows |-> un.rows]
       /\ ret' = [returned |-> TRUE, cols |-> out.cols, rows |-> out.rows,
                   details |-> <<>>]
    /\ pc' = "done"
    /\ UNCHANGED <<gaiaFile, sdssFile, radiusList, gaia, sdss, coords, i, best,
                   resultDetails, outJoined, printed, err>>
    /\ UNCHANGED deriveVars
    /\ UNCHANGED restVars

Next ==
    \/ LoadGaia
    \/ LoadSdss
    \/ BuildCoords
    \/ TryRadius
    \/ NoMatch
    \/ WriteJoined
    \/ WriteUnmatched

Spec == Init /\ [][Next]_vars

(***************************************************************************)
(* load_table alone, on tables with any subset of the candidate column     *)
(* names and rows whose positions are numbers in range, numbers out of     *)
(* range (RA 400 degrees, Dec 100 degrees), infinities, texts or empty.    *)
(***************************************************************************)
LoadRaCells == {Num(1800000), Num(4000000), Inf, Text, NaN}
LoadDecCells == {Num(0), Num(1000000), Inf, Text, NaN}

LoadRowKinds ==
    (LoadRaCells \X {Num(0)}) \cup ({Num(1800000)} \X LoadDecCells) \cup {<<Text, Text>>}

\* Tables that probe the column detection: any subset of the candidate names,
\* at most one row.
LoadColumnSets == {names \cup {"source_id"} : names \in SUBSET (RaNames \cup DecNames)}

\* Tables that probe the row validation: up to MaxLoadRows rows.
LoadRowColumnSets == {{"ra", "dec", "source_id"}, {"RA", "ra", "DEJ2000", "source_id"}}

LoadFiles ==
    {MissingFile}
    \cup UNION {Files(cols, LoadRowKinds, 1) : cols \in LoadColumnSets}
    \cup UNION {Files(cols, LoadRowKinds, MaxLoadRows) : cols \in LoadRowColumnSets}

InitLoad ==
    /\ gaiaFile \in LoadFiles
    /\ sdssFile = MissingFile
    /\ radiusList = <<>>
    /\ Start
    /\ DeriveIdle
    /\ RestIdle

NextLoad == LoadGaia

SpecLoad == InitLoad /\ [][NextLoad]_vars

(***************************************************************************)
(* The feature derivers: src/src/process_gaia_data.py (process_gaia_csv)   *)
(* and src/src/process_data.py (load_and_process).                         *)
(*                                                                         *)
(* Units.  Every number of the derivers is an integer in thousandths:      *)
(* temperatures in 0.001 K, masses in 0.001 solar mass, parallaxes in      *)
(* 0.001 mas, distances in 0.001 pc, magnitudes in 0.001 mag and           *)
(* probabilities in 0.001.  A value that is no multiple of 0.001 is kept   *)
(* exactly, as a term: [k |-> "ratio", v |-> <<n, d>>] is n / d,           *)
(* [k |-> "log10", v |-> <<n, d>>] is log10(n / d) and                     *)
(* [k |-> "mag", v |-> <<g, n, d>>] is g - 5 * log10(n / d).               *)
(***************************************************************************)
NegInf == [k |-> "-inf", v |-> 0]
Str(s) == [k |-> "str", v |-> s]

Milli(n) == 1000 * n

\* x < n for a cell x and a number n in thousandths; False for NaN.
Lt(x, n) == \/ x.k = "num" /\ x.v < n
            \/ x.k = "-inf"

\* Mutant of Gt: x >= n
Ge(x, n) == \/ x.k = "num" /\ x.v >= n
            \/ x.k = "inf"

\* x > n
Gt(x, n) == \/ x.k = "num" /\ x.v > n
            \/ x.k = "inf"

\* Mutant of replace: nothing is replaced.
replace_nothing(x, old, new) == x

\* Series.replace(old, new) on one value
replace(x, old, new) == IF x.k = "num" /\ x.v = old THEN new ELSE x

\* 1000.0 / x
Div1000(x) ==
    IF x.k = "num" THEN
        IF x.v = 0 THEN Inf
        ELSE IF (1000000 * 1000) % Abs(x.v) # 0 THEN [k |-> "ratio", v |-> <<1000000, x.v>>]
        ELSE IF x.v > 0 THEN Num((1000000 * 1000) \div x.v)
        ELSE Num(-((1000000 * 1000) \div (-x.v)))
    ELSE IF x.k \in {"inf", "-inf"} THEN Num(0)
    ELSE NaN

\* x / 10
Div10(x) ==
    IF x.k = "num" THEN
        IF Abs(x.v) % 10 # 0 THEN [k |-> "ratio", v |-> <<x.v, 10000>>]
        ELSE IF x.v >= 0 THEN Num(x.v \div 10)
        ELSE Num(-((-x.v) \div 10))
    ELSE IF x.k = "ratio" THEN [k |-> "ratio", v |-> <<x.v[1], 10 * x.v[2]>>]
    ELSE x

\* 10^e for e >= 0
RECURSIVE Pow10(_)
Pow10(e) == IF e = 0 THEN 1 ELSE 10 * Pow10(e - 1)

\* np.log10(x): NaN for a negative number, -inf for zero.
log10(x) ==
    IF x.k = "num" THEN
        IF x.v < 0 THEN NaN
        ELSE IF x.v = 0 THEN NegInf
        ELSE IF \E e \in 0..9 : Pow10(e) = x.v
             THEN Num(Milli((CHOOSE e \in 0..9 : Pow10(e) = x.v) - 3))
             ELSE [k |-> "log10", v |-> <<x.v, 1000>>]
    ELSE IF x.k = "ratio" THEN
        IF (x.v[1] < 0) # (x.v[2] < 0) THEN NaN ELSE [k |-> "log10", v |-> x.v]
    ELSE IF x.k = "inf" THEN Inf
    ELSE NaN

\* g - 5 * l
MinusFiveTimes(g, l) ==
    IF g.k # "num" THEN NaN
    ELSE IF l.k = "num" THEN Num(g.v - 5 * l.v)
    ELSE IF l.k = "log10" THEN [k |-> "mag", v |-> <<g.v>> \o l.v]
    ELSE IF l.k = "inf" THEN NegInf
    ELSE IF l.k = "-inf" THEN Inf
    ELSE NaN

\* Series.clip(lower=n)
\* Mutant of clip: nothing is clipped.
clip_nothing(x, n) == x

clip(x, n) == IF Lt(x, n) THEN Num(n) ELSE x

\* Mutant of classify_star: the breakpoints belong to the cooler class.
classify_star_le(teff) ==
    IF Lt(teff, Milli(4000) + 1) THEN "cool_star"
    ELSE IF Lt(teff, Milli(6500) + 1) THEN "sun_like"
    ELSE IF Lt(teff, Milli(10000) + 1) THEN "hot_star"
    ELSE "very_hot_star"

classify_star(teff) ==
    IF Lt(teff, Milli(4000)) THEN "cool_star"
    ELSE IF Lt(teff, Milli(6500)) THEN "sun_like"
    ELSE IF Lt(teff, Milli(10000)) THEN "hot_star"
    ELSE "very_hot_star"

\* Mutant of estimate_mass_from_teff: the 7000 K edge is at 6500 K.
estimate_mass_from_teff_6500(teff) ==
    IF Lt(teff, Milli(4000)) THEN 600
    ELSE IF Lt(teff, Milli(5500)) THEN 900
    ELSE IF Lt(teff, Milli(6500)) THEN 1200
    ELSE IF Lt(teff, Milli(10000)) THEN 2000
    ELSE IF Lt(teff, Milli(15000)) THEN 5000
    ELSE 10000

\* Mutant of estimate_mass_from_teff: the hottest stars get 25 solar masses.
estimate_mass_from_teff_massive(teff) ==
    IF Lt(teff, Milli(4000)) THEN 600
    ELSE IF Lt(teff, Milli(5500)) THEN 900
    ELSE IF Lt(teff, Milli(7000)) THEN 1200
    ELSE IF Lt(teff, Milli(10000)) THEN 2000
    ELSE IF Lt(teff, Milli(15000)) THEN 5000
    ELSE 25000

\* process_gaia_data.py, lines 28-43
estimate_mass_from_teff(teff) ==
    IF Lt(teff, Milli(4000)) THEN 600
    ELSE IF Lt(teff, Milli(5500)) THEN 900
    ELSE IF Lt(teff, Milli(7000)) THEN 1200
    ELSE IF Lt(teff, Milli(10000)) THEN 2000
    ELSE IF Lt(teff, Milli(15000)) THEN 5000
    ELSE 10000

\* Mutant of estimate_evolution_probs: neutron star and black hole exchanged.
estimate_evolution_probs_swapped(m) ==
    IF Lt(m, Milli(8)) THEN <<980, 0, 20>>
    ELSE IF Lt(m, Milli(20)) THEN <<100, 150, 750>>
    ELSE <<0, 900, 100>>

estimate_evolution_probs(m) ==
    IF Lt(m, Milli(8)) THEN <<980, 20, 0>>
    ELSE IF Lt(m, Milli(20)) THEN <<100, 750, 150>>
    ELSE <<0, 100, 900>>

\* process_data.py
classify_simple(m) ==
    IF Lt(m, 500) THEN "low_mass"
    ELSE IF Lt(m, 1500) THEN "sun_like"
    ELSE IF Lt(m, Milli(8)) THEN "intermediate"
    ELSE "high_mass"

\* Mutant of end_prob: the middle bucket is not normalised.
end_prob_unnormalised(m) ==
    IF Lt(m, Milli(8)) THEN [wd |-> 990, ns |-> 10, bh |-> 0]
    ELSE IF Lt(m, Milli(20)) THEN [wd |-> 20, ns |-> 700, bh |-> 300]
    ELSE [wd |-> 0, ns |-> 100, bh |-> 900]

end_prob(m) ==
    IF Lt(m, Milli(8)) THEN [wd |-> 990, ns |-> 10, bh |-> 0]
    ELSE IF Lt(m, Milli(20)) THEN [wd |-> 20, ns |-> 700, bh |-> 280]
    ELSE [wd |-> 0, ns |-> 100, bh |-> 900]

\* df[c] = vals, where vals[n] is the value for the n-th row
SetCol(df, c, vals) ==
    [cols |-> df.cols \cup {c},
     rows |-> [n \in DOMAIN df.rows |->
                 [x \in df.cols \cup {c} |-> IF x = c THEN vals[n] ELSE df.rows[n][x]]]]

\* The value of column c in every row of df
Col(df, c) == [n \in DOMAIN df.rows |-> df.rows[n][c]]

\* df.dropna(subset=...)
dropna(df, subset) ==
    [df EXCEPT !.rows = SelectSeq(df.rows, LAMBDA row : \A c \in subset : notnull(row[c]))]

\* df[df[c] > 0]
positive_rows(df, c) ==
    [df EXCEPT !.rows = SelectSeq(df.rows, LAMBDA row : Gt(row[c], 0))]

required_cols == <<"ra", "dec", "phot_g_mean_mag">>

\* lines 63-65: the first required column that is missing, or None
first_missing(cols) ==
    IF \A n \in DOMAIN required_cols : required_cols[n] \in cols THEN None
    ELSE required_cols[CHOOSE n \in DOMAIN required_cols :
                         /\ required_cols[n] \notin cols
                         /\ \A m \in 1..(n - 1) : required_cols[m] \in cols]

\* Values np.random.uniform(3500, 10000) may draw.
RandomTeffs == {Num(Milli(3500)), Num(Milli(6500)), Num(Milli(9999))}

\* Mutant of abs_mag: without a parallax column the table gets no abs_mag_g
\* column.
abs_mag_or_skip(df) ==
    IF "parallax" \in df.cols
    THEN LET rows == DOMAIN df.rows
             parallax == [n \in rows |-> replace(Col(df, "parallax")[n], 0, NaN)]
             d == SetCol(df, "distance_pc", [n \in rows |-> Div1000(parallax[n])])
         IN SetCol(d, "abs_mag_g",
                   [n \in rows |-> MinusFiveTimes(Col(d, "phot_g_mean_mag")[n],
                                                 log10(Div10(Col(d, "distance_pc")[n])))])
    ELSE df

\* lines 88-95
abs_mag(df) ==
    IF "parallax" \in df.cols
    THEN LET rows == DOMAIN df.rows
             parallax == [n \in rows |-> replace(Col(df, "parallax")[n], 0, NaN)]
             d == SetCol(df, "distance_pc", [n \in rows |-> Div1000(parallax[n])])
         IN SetCol(d, "abs_mag_g",
                   [n \in rows |-> MinusFiveTimes(Col(d, "phot_g_mean_mag")[n],
                                                 log10(Div10(Col(d, "distance_pc")[n])))])
    ELSE SetCol(df, "abs_mag_g", [n \in DOMAIN df.rows |-> NaN])

\* lines 80-104
derive(df) ==
    LET rows == DOMAIN df.rows
        d1 == SetCol(df, "teff", Col(df, "teff_gspphot"))
        d2 == SetCol(d1, "log_teff", [n \in rows |-> log10(Col(d1, "teff")[n])])
        d3 == SetCol(d2, "mass_est",
                     [n \in rows |-> Num(estimate_mass_from_teff(Col(d2, "teff")[n]))])
        d4 == SetCol(d3, "log_mass", [n \in rows |-> log10(Col(d3, "mass_est")[n])])
        d5 == abs_mag(d4)
        d6 == SetCol(d5, "star_class",
                     [n \in rows |-> Str(classify_star(Col(d5, "teff")[n]))])
        probs_ == [n \in rows |-> estimate_evolution_probs(Col(d6, "mass_est")[n])]
        d7 == SetCol(d6, "prob_white_dwarf", [n \in rows |-> Num(probs_[n][1])])
        d8 == SetCol(d7, "prob_neutron_star", [n \in rows |-> Num(probs_[n][2])])
    IN SetCol(d8, "prob_black_hole", [n \in rows |-> Num(probs_[n][3])])

ProcRaise(type, message) ==
    /\ procPc' = "failed"
    /\ procErr' = [type |-> type, message |-> message, payload |-> <<>>]

toyVars == <<toyFile, toyPc, toyOut, toyErr>>

\* line 57: df = pd.read_csv(input_csv)
ProcRead ==
    /\ procPc = "read"
    /\ IF ~procFile.exists
       THEN /\ ProcRaise("FileNotFoundError", "No such file or directory")
            /\ UNCHANGED procDf
       ELSE /\ procDf' = [cols |-> procFile.cols, rows |-> procFile.rows]
            /\ procPc' = "required"
            /\ UNCHANGED procErr
    /\ UNCHANGED <<procFile, procOut, procRuns, mass, probs>>
    /\ UNCHANGED toyVars
    /\ UNCHANGED crossVars
    /\ UNCHANGED restVars

\* Mutant of ProcRequired: the output file is created before the columns are
\* checked.
ProcRequiredAfterCreate ==
    /\ procPc = "required"
    /\ IF first_missing(procDf.cols) # None
       THEN /\ ProcRaise("ValueError", "Required column not found in Gaia CSV.")
            /\ procOut' = [written |-> TRUE, cols |-> {}, rows |-> <<>>]
       ELSE /\ procPc' = "fallback"
            /\ UNCHANGED <<procErr, procOut>>
    /\ UNCHANGED <<procFile, procDf, procRuns, mass, probs>>
    /\ UNCHANGED toyVars
    /\ UNCHANGED crossVars
    /\ UNCHANGED restVars

\* lines 60-65: the required columns
ProcRequired ==
    /\ procPc = "required"
    /\ IF first_missing(procDf.cols) # None
       THEN ProcRaise("ValueError", "Required column not found in Gaia CSV.")
       ELSE /\ procPc' = "fallback"
            /\ UNCHANGED procErr
    /\ UNCHANGED <<procFile, procDf, procOut, procRuns, mass, probs>>
    /\ UNCHANGED toyVars
    /\ UNCHANGED crossVars
    /\ UNCHANGED restVars

\* lines 68-70: a table without teff_gspphot gets random temperatures
ProcFallback ==
    /\ procPc = "fallback"
    /\ IF "teff_gspphot" \notin procDf.cols
       THEN \E draw \in [DOMAIN procDf.rows -> RandomTeffs] :
               procDf' = [cols |-> procDf.cols \cup {"teff_gspphot"},
                          rows |-> [n \in DOMAIN procDf.rows |->
                                      [x \in procDf.cols \cup {"teff_gspphot"} |->
                                         IF x = "teff_gspphot" THEN draw[n]
                                         ELSE procDf.rows[n][x]]]]
       ELSE UNCHANGED procDf
    /\ procPc' = "clean"
    /\ UNCHANGED <<procFile, procOut, procErr, procRuns, mass, probs>>
    /\ UNCHANGED toyVars
    /\ UNCHANGED crossVars
    /\ UNCHANGED restVars

\* lines 74-75: rows without teff or magnitude and rows with teff <= 0 go
ProcClean ==
    /\ procPc = "clean"
    /\ procDf' = positive_rows(dropna(procDf, {"teff_gspphot", "phot_g_mean_mag"}),
                               "teff_gspphot")
    /\ procPc' = "derive"
    /\ UNCHANGED <<procFile, procOut, procErr, procRuns, mass, probs>>
    /\ UNCHANGED toyVars
    /\ UNCHANGED crossVars
    /\ UNCHANGED restVars

\* lines 80-104: the derived columns
ProcDerive ==
    /\ procPc = "derive"
    /\ procDf' = derive(procDf)
    /\ procPc' = "write"
    /\ UNCHANGED <<procFile, procOut, procErr, procRuns, mass, probs>>
    /\ UNCHANGED toyVars
    /\ UNCHANGED crossVars
    /\ UNCHANGED restVars

\* lines 107-111: df.to_csv(output_csv, index=False); return df
ProcWrite ==
    /\ procPc = "write"
    /\ procOut' = [written |-> TRUE, cols |-> procDf.cols, rows |-> procDf.rows]
    /\ procRuns' = Append(procRuns, procDf)
    /\ procPc' = "done"
    /\ UNCHANGED <<procFile, procDf, procErr, mass, probs>>
    /\ UNCHANGED toyVars
    /\ UNCHANGED crossVars
    /\ UNCHANGED restVars

\* process_gaia_csv is called again on the same input file
ProcRerun ==
    /\ procPc = "done"
    /\ Len(procRuns) < MaxRuns
    /\ procPc' = "read"
    /\ procDf' = NoTable
    /\ UNCHANGED <<procFile, procOut, procErr, procRuns, mass, probs>>
    /\ UNCHANGED toyVars
    /\ UNCHANGED crossVars
    /\ UNCHANGED restVars

\* process_data.py lines 15-26 on the table df
toy_process(df) ==
    LET d0 == dropna(df, {"mass_solar", "teff"})
        rows == DOMAIN d0.rows
        d1 == SetCol(d0, "log_mass",
                     [n \in rows |-> log10(clip(Col(d0, "mass_solar")[n], 1))])
        d2 == SetCol(d1, "log_teff",
                     [n \in rows |-> log10(clip(Col(d1, "teff")[n], Milli(1)))])
        d3 == SetCol(d2, "class_simple",
                     [n \in rows |-> Str(classify_simple(Col(d2, "mass_solar")[n]))])
        probs_ == [n \in rows |-> end_prob(Col(d3, "mass_solar")[n])]
        d4 == SetCol(d3, "p_wd", [n \in rows |-> Num(probs_[n].wd)])
        d5 == SetCol(d4, "p_ns", [n \in rows |-> Num(probs_[n].ns)])
    IN SetCol(d5, "p_bh", [n \in rows |-> Num(probs_[n].bh)])

\* load_and_process(input_csv)
LoadAndProcess ==
    /\ toyPc = "start"
    /\ IF ~toyFile.exists
       THEN /\ toyPc' = "failed"
            /\ toyErr' = [type |-> "FileNotFoundError",
                          message |-> "No such file or directory", payload |-> <<>>]
            /\ UNCHANGED toyOut
       ELSE IF ~({"mass_solar", "teff"} \subseteq toyFile.cols)
       THEN /\ toyPc' = "failed"
            /\ toyErr' = [type |-> "KeyError", message |-> "mass_solar, teff",
                          payload |-> <<>>]
            /\ UNCHANGED toyOut
       ELSE LET df == toy_process([cols |-> toyFile.cols, rows |-> toyFile.rows]) IN
            /\ toyOut' = [written |-> TRUE, cols |-> df.cols, rows |-> df.rows]
            /\ toyPc' = "done"
            /\ UNCHANGED toyErr
    /\ UNCHANGED <<toyFile, procFile, procPc, procDf, procOut, procErr, procRuns,
                   mass, probs>>
    /\ UNCHANGED crossVars
    /\ UNCHANGED restVars

\* a direct call estimate_evolution_probs(mass)
CallEstimateEvolutionProbs ==
    /\ mass.k = "num"
    /\ probs = <<>>
    /\ probs' = estimate_evolution_probs(mass)
    /\ UNCHANGED <<procFile, procPc, procDf, procOut, procErr, procRuns, mass>>
    /\ UNCHANGED toyVars
    /\ UNCHANGED crossVars
    /\ UNCHANGED restVars

(***************************************************************************)
(* prepare_data of train_model_gaia.py, on the file process_gaia_csv wrote *)
(* (CSV_PATH is the default output_csv of process_gaia_csv).  to_csv       *)
(* writes a null as an empty field and read_csv reads an empty field as a  *)
(* null; every other cell is read back as it was written.                  *)
(***************************************************************************)
\* Mutant: a mass of exactly 8 is labelled white_dwarf.
label_for_mass_le(m) ==
    IF Lt(m, Milli(8) + 1) THEN "white_dwarf"
    ELSE IF Lt(m, Milli(20)) THEN "neutron_star"
    ELSE "black_hole"

\* train_model_gaia.py
label_for_mass(m) ==
    IF Lt(m, Milli(8)) THEN "white_dwarf"
    ELSE IF Lt(m, Milli(20)) THEN "neutron_star"
    ELSE "black_hole"

\* Mutant of choose_feature_columns: abs_mag_g is no candidate.
choose_feature_columns_no_abs_mag(cols) ==
    LET candidates == <<"mass_est", "teff", "mh_gspphot", "metallicity">>
        features == SelectSeq(candidates, LAMBDA c : c \in cols)
    IN IF Len(features) < 2
       THEN features \o SelectSeq(<<"log_mass", "log_teff">>, LAMBDA c : c \in cols)
       ELSE features

\* lines 14-22, for a table with the columns cols
choose_feature_columns(cols) ==
    LET candidates == <<"mass_est", "teff", "abs_mag_g", "mh_gspphot", "metallicity">>
        features == SelectSeq(candidates, LAMBDA c : c \in cols)
    IN IF Len(features) < 2
       THEN features \o SelectSeq(<<"log_mass", "log_teff">>, LAMBDA c : c \in cols)
       ELSE features

\* The numbers of s in ascending order.
RECURSIVE SortNums(_)
SortNums(s) ==
    IF s = <<>> THEN <<>>
    ELSE LET k == CHOOSE k \in DOMAIN s : \A j \in DOMAIN s : s[k] <= s[j]
         IN <<s[k]>> \o SortNums([n \in 1..(Len(s) - 1) |-> IF n < k THEN s[n] ELSE s[n + 1]])

\* Series.median() of a column of plain numbers and nulls: the nulls are
\* skipped; the median of no number is a null.
median(column) ==
    LET nums == SelectSeq(column, LAMBDA x : x.k = "num")
        srt == SortNums([n \in DOMAIN nums |-> nums[n].v])
        n == Len(srt)
    IN IF n = 0 THEN NaN
       ELSE IF n % 2 = 1 THEN Num(srt[(n + 1) \div 2])
       ELSE IF (srt[n \div 2] + srt[n \div 2 + 1]) % 2 = 0
       THEN Num((srt[n \div 2] + srt[n \div 2 + 1]) \div 2)
       ELSE [k |-> "ratio", v |-> <<srt[n \div 2] + srt[n \div 2 + 1], 2>>]

\* LabelEncoder: the classes in alphabetical order
LabelOrder == <<"black_hole", "neutron_star", "white_dwarf">>

PrepRaise(type, message) ==
    prep' = [prep EXCEPT !.pc = "failed",
                         !.err = [type |-> type, message |-> message, payload |-> <<>>]]

\* lines 34-38: read the file process_gaia_csv wrote; mass_est is required.
\* The training script is run once the processing script has ended.
PrepRead ==
    /\ prep.pc = "idle"
    /\ procPc \in {"done", "failed"}
    /\ IF ~procOut.written
       THEN PrepRaise("FileNotFoundError", "No such file or directory")
       ELSE IF "mass_est" \notin procOut.cols
       THEN PrepRaise("ValueError", "Input CSV must contain 'mass_est' column")
       ELSE prep' = [prep EXCEPT !.pc = "select",
                                 !.df = [cols |-> procOut.cols, rows |-> procOut.rows]]
    /\ UNCHANGED <<simRow, sim, labels>>
    /\ UNCHANGED <<crossVars, deriveVars, nnVars>>

\* lines 41-52: the label column, the feature columns, the rows without a
\* missing feature or label
PrepSelect ==
    /\ prep.pc = "select"
    /\ LET df == SetCol(prep.df, "label",
                        [n \in DOMAIN prep.df.rows |->
                           Str(label_for_mass(Col(prep.df, "mass_est")[n]))])
           feature_cols == choose_feature_columns(df.cols)
       IN IF feature_cols = <<>>
          THEN PrepRaise("ValueError", "No suitable feature columns found in CSV")
          ELSE prep' = [prep EXCEPT
                          !.pc = "numeric",
                          !.df = df,
                          !.feature_cols = feature_cols,
                          !.df_clean = dropna(df, Range(feature_cols) \cup {"label"}).rows]
    /\ UNCHANGED <<simRow, sim, labels>>
    /\ UNCHANGED <<crossVars, deriveVars, nnVars>>

\* lines 56-60: the features as numbers; in a column with a null, the nulls
\* become the median of the column.  X[col].fillna(med, inplace=True) acts on
\* X in some versions of pandas and on a copy in others: either may happen.
PrepNumeric ==
    /\ prep.pc = "numeric"
    /\ LET cols == Range(prep.feature_cols)
           X == [n \in DOMAIN prep.df_clean |->
                   [c \in cols |-> to_numeric(prep.df_clean[n][c])]]
           med(c) == median([n \in DOMAIN X |-> X[n][c]])
           filled == [n \in DOMAIN X |->
                        [c \in cols |-> IF X[n][c] = NaN THEN med(c) ELSE X[n][c]]]
       IN \E inplace \in BOOLEAN :
            prep' = [prep EXCEPT !.pc = "encode", !.X = IF inplace THEN filled ELSE X]
    /\ UNCHANGED <<simRow, sim, labels>>
    /\ UNCHANGED <<crossVars, deriveVars, nnVars>>

\* lines 63-80: the labels as integers, the scaler, the return value.
\* StandardScaler().fit raises ValueError on a matrix without rows.  Xs is X
\* standardised column by column; the model keeps X.
PrepEncode ==
    /\ prep.pc = "encode"
    /\ LET label(n) == prep.df_clean[n]["label"].v
           classes_ == SelectSeq(LabelOrder,
                                 LAMBDA l : \E n \in DOMAIN prep.df_clean : label(n) = l)
           y == [n \in DOMAIN prep.df_clean |->
                   (CHOOSE k \in DOMAIN classes_ : classes_[k] = label(n)) - 1]
       IN IF Len(prep.df_clean) = 0
          THEN PrepRaise("ValueError", "Found array with 0 sample(s)")
          ELSE prep' = [prep EXCEPT !.pc = "done", !.y = y, !.n_classes = Len(classes_)]
    /\ UNCHANGED <<simRow, sim, labels>>
    /\ UNCHANGED <<crossVars, deriveVars, nnVars>>

(***************************************************************************)
(* Input tables of the derivers.                                           *)
(***************************************************************************)
\* Temperatures on both sides of every breakpoint, the two temperatures of
\* the scenario (3000 K, 9000 K), non-positive, missing and infinite ones.
ProcTeffs ==
    {Num(Milli(t)) : t \in {3000, 3999, 4000, 5499, 5500, 6499, 6500, 6999, 7000, 9000,
                            9999, 10000, 14999, 15000, 20000, 0, -5}}
    \cup {NaN, Inf}

\* [teff_gspphot, parallax, phot_g_mean_mag] of the rows of multi-row tables
ProcRowKinds ==
    {<<Num(Milli(9000)), Num(Milli(100)), Num(Milli(12))>>,
     <<Num(Milli(3000)), Num(0), Num(Milli(12))>>,
     <<Num(0), Num(Milli(10)), Num(Milli(12))>>,
     <<Num(Milli(-5)), Num(Milli(-10)), Num(Milli(12))>>,
     <<NaN, Num(Milli(10)), Num(Milli(12))>>,
     <<Num(Milli(5000)), NaN, Num(Milli(12))>>,
     <<Num(Milli(6000)), Num(Milli(3)), Num(Milli(12))>>,
     <<Num(Milli(5000)), Num(Milli(-10)), Num(Milli(12))>>,
     <<Num(Milli(5000)), Num(Milli(10)), NaN>>}

MkProcRow(cols, kind, n) ==
    [c \in cols |-> IF c = "teff_gspphot" THEN kind[1]
                    ELSE IF c = "parallax" THEN kind[2]
                    ELSE IF c = "phot_g_mean_mag" THEN kind[3]
                    ELSE Num(Milli(n))]

ProcTables(cols, kinds, max) ==
    UNION {{[exists |-> TRUE, cols |-> cols,
             rows |-> [p \in 1..n |-> MkProcRow(cols, ks[p], p)]] :
              ks \in [1..n -> kinds]} : n \in 0..max}

ProcColumns == {"ra", "dec", "phot_g_mean_mag", "parallax", "teff_gspphot", "mh_gspphot"}

\* Tables of two rows whose metallicity is a number, a text or missing.
ProcMhTables ==
    {[exists |-> TRUE, cols |-> ProcColumns,
      rows |-> [p \in 1..2 |->
                  [MkProcRow(ProcColumns,
                             <<Num(Milli(9000)), Num(Milli(100)), Num(Milli(12))>>, p)
                     EXCEPT !["mh_gspphot"] = mh[p]]]] :
        mh \in [1..2 -> {Num(Milli(1)), Text, NaN}]}

ProcFiles ==
    {MissingFile}
    \cup UNION {ProcTables(cols, {<<Num(Milli(9000)), Num(Milli(100)), Num(Milli(12))>>}, 1) :
                  cols \in SUBSET ProcColumns}
    \cup ProcTables(ProcColumns, {<<t, Num(Milli(100)), Num(Milli(12))>> : t \in ProcTeffs}, 1)
    \cup UNION {ProcTables(cols, ProcRowKinds, MaxProcRows) :
                  cols \in {ProcColumns, {"ra", "dec", "phot_g_mean_mag", "teff_gspphot"}}}
    \cup ProcMhTables

\* [mass_solar, teff] of the rows of the toy tables
ToyRowKinds ==
    {<<Num(m), Num(Milli(5000))>> :
        m \in {300, 1000, 7999, 8000, 19999, 20000, 25000, 0, -1000}}
    \cup {<<NaN, Num(Milli(5000))>>, <<Num(1000), Num(0)>>, <<Num(1000), NaN>>}

ToyTables(cols, max) ==
    UNION {{[exists |-> TRUE, cols |-> cols,
             rows |-> [p \in 1..n |->
                         [c \in cols |-> IF c = "mass_solar" THEN ks[p][1]
                                         ELSE IF c = "teff" THEN ks[p][2]
                                         ELSE Num(Milli(p))]]] :
              ks \in [1..n -> ToyRowKinds]} : n \in 0..max}

ToyFiles ==
    {MissingFile}
    \cup UNION {ToyTables(cols, 1) : cols \in SUBSET {"mass_solar", "teff", "source_id"}}
    \cup ToyTables({"mass_solar", "teff", "source_id"}, MaxToyRows)

\* Masses of the direct calls: both sides of 8 and 20 solar masses, and 25.
Masses == {Num(m) : m \in {0, 600, 7999, 8000, 10000, 19999, 20000, 25000}}

\* run_crossmatch is not called.
CrossIdle ==
    /\ gaiaFile = MissingFile
    /\ sdssFile = MissingFile
    /\ radiusList = <<>>
    /\ pc = "idle"
    /\ gaia = NotLoaded
    /\ sdss = NotLoaded
    /\ coords = [gaia |-> <<>>, sdss |-> <<>>]
    /\ i = 0
    /\ best = NoBest
    /\ resultDetails = <<>>
    /\ outJoined = NoFile
    /\ outUnmatched = NoUnmatched
    /\ printed = <<>>
    /\ err = NoErr
    /\ ret = NoRet

\* One of the derivers is called: process_gaia_csv on a table, load_and_process
\* on a table, or estimate_evolution_probs on a mass.
InitDerive ==
    /\ CrossIdle
    /\ RestIdle
    /\ \/ /\ procFile \in ProcFiles
          /\ procPc = "read"
          /\ procDf = NoTable /\ procOut = NoOutput /\ procErr = NoErr /\ procRuns = <<>>
          /\ ToyIdle
          /\ ProbeIdle
       \/ /\ ProcIdle
          /\ toyFile \in ToyFiles
          /\ toyPc = "start"
          /\ toyOut = NoOutput /\ toyErr = NoErr
          /\ ProbeIdle
       \/ /\ ProcIdle
          /\ ToyIdle
          /\ mass \in Masses
          /\ probs = <<>>

NextDerive ==
    \/ ProcRead
    \/ ProcRequired
    \/ ProcFallback
    \/ ProcClean
    \/ ProcDerive
    \/ ProcWrite
    \/ ProcRerun
    \/ LoadAndProcess
    \/ CallEstimateEvolutionProbs
    \/ PrepRead
    \/ PrepSelect
    \/ PrepNumeric
    \/ PrepEncode

SpecDerive == InitDerive /\ [][NextDerive]_vars

(***************************************************************************)
(* Either stage is called: run_crossmatch or one of the derivers.          *)
(***************************************************************************)
InitStages == Init \/ InitDerive

NextStages == Next \/ NextDerive

SpecStages == InitStages /\ [][NextStages]_vars

(***************************************************************************)
(* Reference notions the properties are stated with.                       *)
(***************************************************************************)
\* run_crossmatch has written both tables and returned.
Returned == pc = "done"

\* run_crossmatch ended with the no-match error of line 124.
NoMatchFailure == pc = "failed" /\ err.type = "RuntimeError"

\* The joined table exists: the winning radius is settled.
Selected == pc \in {"write_unmatched", "done"}

\* The pairs (a, b), a a position in the loaded Gaia catalog and b a position
\* in the loaded SDSS catalog, whose records are at most r apart.
PairsWithin(r) ==
    {x \in (0..(Len(coords.gaia) - 1)) \X (0..(Len(coords.sdss) - 1)) :
        Within(coords.gaia[x[1] + 1], coords.sdss[x[2] + 1], r)}

\* The number of distinct Gaia positions in the pairs within r.
UniqueGaiaWithin(r) == Cardinality({x[1] : x \in PairsWithin(r)})

\* The (idx_gaia, idx_sdss) values of the rows of a frame.
IdxPairs(frame) ==
    {<<row[Plain("idx_gaia")].v, row[Plain("idx_sdss")].v>> : row \in frame.rows}

\* The pair list recorded for an item of result_details.
PairsOfItem(item) ==
    IF "matches_df" \in DOMAIN item.val THEN IdxPairs(item.val.matches_df) ELSE {}

CountOfItem(item) == Get(item.val, "count_pairs", Get(item.val, "count", 0))

(***************************************************************************)
(* C1.  run_crossmatch selects the radius whose pair set contains the      *)
(* greatest number of distinct Gaia positions, on a tie the earliest such  *)
(* radius of the list, and reports that number as its count of unique      *)
(* matches.                                                                *)
(***************************************************************************)
C1_SelectsMostUniqueGaia ==
    Selected =>
        \E n \in DOMAIN radiusList :
            /\ best.radius = radiusList[n]
            /\ best.count = UniqueGaiaWithin(radiusList[n])
            /\ \A m \in DOMAIN radiusList :
                   UniqueGaiaWithin(radiusList[m]) <= UniqueGaiaWithin(radiusList[n])
            /\ \A m \in 1..(n - 1) :
                   UniqueGaiaWithin(radiusList[m]) < UniqueGaiaWithin(radiusList[n])

\* The scenario of C1: one Gaia record and one SDSS record 1.08 arcsec apart,
\* radii starting 1.0, 2.0: radius 2.0 is selected with 1 unique match.
C1_ScenarioSelectsTwoArcsec ==
    (/\ Selected
     /\ Len(coords.gaia) = 1 /\ Len(coords.sdss) = 1
     /\ DeltaRa(coords.gaia[1], coords.sdss[1]) = 3
     /\ coords.gaia[1].dec = coords.sdss[1].dec
     /\ radiusList = <<100, 200>>)
    => best.radius = 200 /\ best.count = 1

(***************************************************************************)
(* C2.  For each radius tried, the recorded pair list is exactly the set   *)
(* of (a, b) with a a Gaia position, b an SDSS position and separation at  *)
(* most the radius, idx_gaia holding a and idx_sdss holding b.             *)
(***************************************************************************)
C2_PairListIsGaiaSdssPairs ==
    \A n \in DOMAIN resultDetails :
        PairsOfItem(resultDetails[n]) = PairsWithin(resultDetails[n].key)

(***************************************************************************)
(* C3.  The joined table has exactly one row per pair (a, b) of the        *)
(* winning pair set, and the row carries the column values of the record   *)
(* at position a of the loaded Gaia catalog and of the record at position  *)
(* b of the loaded SDSS catalog, also when load_table excluded rows.       *)
(***************************************************************************)
GaiaCol(c) == [pre |-> "gaia_", base |-> c, suf |-> ""]
SdssCol(c) == [pre |-> "sdss_", base |-> c, suf |-> ""]

\* The row carries, in each prefixed column it has, the value of the Gaia
\* record at position a and of the SDSS record at position b.
CarriesPair(frame, row, a, b) ==
    /\ a \in 0..(Len(gaia.df.rows) - 1)
    /\ b \in 0..(Len(sdss.df.rows) - 1)
    /\ \A c \in gaia.df.cols :
           GaiaCol(c) \in frame.cols => row[GaiaCol(c)] = gaia.df.rows[a + 1][c]
    /\ \A c \in sdss.df.cols :
           SdssCol(c) \in frame.cols => row[SdssCol(c)] = sdss.df.rows[b + 1][c]

C3_JoinedRowsCarryPairRecords ==
    outJoined.written =>
        /\ IdxPairs(outJoined) = PairsWithin(best.radius)
        /\ Cardinality(outJoined.rows) = Cardinality(PairsWithin(best.radius))
        /\ \A row \in outJoined.rows :
               CarriesPair(outJoined, row, row[Plain("idx_gaia")].v, row[Plain("idx_sdss")].v)

(***************************************************************************)
(* C4.  The unmatched table holds exactly the records of the loaded Gaia   *)
(* catalog whose position occurs in no pair of the winning result, so each *)
(* Gaia record is either matched (in a joined row) or unmatched, not both. *)
(***************************************************************************)
MatchedGaiaWithin(r) == {x[1] : x \in PairsWithin(r)}

C4_UnmatchedIsComplementOfMatched ==
    Returned =>
        LET unmatched == sorted((0..(Len(gaia.df.rows) - 1)) \ MatchedGaiaWithin(best.radius))
        IN /\ outUnmatched.rows = [n \in DOMAIN unmatched |-> gaia.df.rows[unmatched[n] + 1]]
           /\ {row[Plain("idx_gaia")].v : row \in outJoined.rows} = MatchedGaiaWithin(best.radius)

(***************************************************************************)
(* C5.  In the joined table every column of the Gaia catalog appears as    *)
(* gaia_<column> and every column of the SDSS catalog as sdss_<column>,    *)
(* columns whose name occurs in both catalogs included.                    *)
(***************************************************************************)
C5_EveryColumnPrefixed ==
    outJoined.written =>
        /\ \A c \in gaia.df.cols : GaiaCol(c) \in outJoined.cols
        /\ \A c \in sdss.df.cols : SdssCol(c) \in outJoined.cols

(***************************************************************************)
(* C6.  If every candidate radius yields zero pairs, run_crossmatch fails  *)
(* with the no-match error.  As claimed, the error carries the per-radius  *)
(* pair counts.                                                            *)
(***************************************************************************)
\* The per-radius pair counts, one item per radius of result_details.
PerRadiusCounts ==
    [n \in DOMAIN resultDetails |->
       [radius |-> resultDetails[n].key, count_pairs |-> CountOfItem(resultDetails[n])]]

LoopEnded == Selected \/ NoMatchFailure

SomePairWithinNonzeroRadius ==
    \E n \in DOMAIN radiusList : radiusList[n] # 0 /\ PairsWithin(radiusList[n]) # {}

C7_PairWithinRadiusGivesRows ==
    (LoopEnded /\ SomePairWithinNonzeroRadius) =>
        /\ ~NoMatchFailure
        /\ outJoined.written
        /\ outJoined.rows # {}
        /\ Returned => ret.rows # {}

\* A run that returned a single joined row, found at a nonzero radius.
C7_Witness ==
    /\ Returned
    /\ SomePairWithinNonzeroRadius
    /\ best.radius # 0
    /\ Cardinality(ret.rows) = 1

(***************************************************************************)
(* C8.  For radii r1 <= r2 of the list, the pair set found for r1 is a     *)
(* subset of the pair set found for r2, and the pair count of r2 is at     *)
(* least the pair count of r1.                                             *)
(***************************************************************************)
C8_PairSetsGrowWithRadius ==
    \A n, m \in DOMAIN resultDetails :
        resultDetails[n].key <= resultDetails[m].key =>
            /\ PairsOfItem(resultDetails[n]) \subseteq PairsOfItem(resultDetails[m])
            /\ CountOfItem(resultDetails[n]) <= CountOfItem(resultDetails[m])

\* Two radii were tried, the larger one first, and the larger one found
\* strictly more pairs than the smaller, which found some.
C8_Witness ==
    /\ Len(resultDetails) = 2
    /\ resultDetails[2].key < resultDetails[1].key
    /\ PairsOfItem(resultDetails[2]) # {}
    /\ CountOfItem(resultDetails[2]) < CountOfItem(resultDetails[1])

(***************************************************************************)
(* C9.  load_table takes as RA column the first of ra, RA, RAJ2000, ra_deg *)
(* that is a column of the table and as Dec column the first of dec, DEC,  *)
(* DEJ2000, dec_deg that is one; it fails with the schema error exactly    *)
(* when one of the two lists has no name among the columns.                *)
(***************************************************************************)
ExpectedRaCol(cols) ==
    IF "ra" \in cols THEN "ra"
    ELSE IF "RA" \in cols THEN "RA"
    ELSE IF "RAJ2000" \in cols THEN "RAJ2000"
    ELSE IF "ra_deg" \in cols THEN "ra_deg"
    ELSE None

ExpectedDecCol(cols) ==
    IF "dec" \in cols THEN "dec"
    ELSE IF "DEC" \in cols THEN "DEC"
    ELSE IF "DEJ2000" \in cols THEN "DEJ2000"
    ELSE IF "dec_deg" \in cols THEN "dec_deg"
    ELSE None

GaiaLoadTried == pc # "load_gaia" /\ gaiaFile.exists

SchemaFailure == pc = "failed" /\ err.type = "ValueError" /\ gaia = NotLoaded

C9_FirstCandidateColumns ==
    GaiaLoadTried =>
        /\ SchemaFailure <=> (\/ ExpectedRaCol(gaiaFile.cols) = None
                              \/ ExpectedDecCol(gaiaFile.cols) = None)
        /\ ~SchemaFailure =>
               /\ gaia.err = "none"
               /\ gaia.ra_col = ExpectedRaCol(gaiaFile.cols)
               /\ gaia.dec_col = ExpectedDecCol(gaiaFile.cols)

\* A table without ra but with RA and ra_deg, without dec and DEC but with
\* DEJ2000 and dec_deg, was loaded.
C9_Witness ==
    /\ GaiaLoadTried
    /\ {"RA", "ra_deg", "DEJ2000", "dec_deg"} \subseteq gaiaFile.cols
    /\ gaiaFile.cols \cap {"ra", "dec", "DEC"} = {}
    /\ gaia.ra_col = "RA"
    /\ gaia.dec_col = "DEJ2000"

(***************************************************************************)
(* C10.  Every record load_table returns has a numeric, finite RA in       *)
(* [0, 360) degrees and a numeric, finite Dec in [-90, 90] degrees.        *)
(***************************************************************************)
ValidPosition(row, ra_col, dec_col) ==
    /\ row[ra_col].k = "num"
    /\ row[ra_col].v >= 0
    /\ row[ra_col].v < 3600000
    /\ row[dec_col].k = "num"
    /\ row[dec_col].v >= -900000
    /\ row[dec_col].v <= 900000

C10_LoadedPositionsValid ==
    gaia.err = "none" =>
        \A n \in DOMAIN gaia.df.rows : ValidPosition(gaia.df.rows[n], gaia.ra_col, gaia.dec_col)

(***************************************************************************)
(* C11.  load_table excludes exactly the rows whose RA cell or Dec cell    *)
(* does not coerce to a number (a text or an empty cell), keeps the other  *)
(* rows in their original order under their original labels, reports the   *)
(* number of excluded rows, and does not fail because of such rows: a      *)
(* table that exists and has both position columns is always loaded.       *)
(***************************************************************************)
CoercionFails(x) == x.k \in {"text", "nan"}

\* The 0-based labels, in file order, of the rows from position n on whose
\* two position cells coerce.
RECURSIVE CoercibleFrom(_, _, _, _)
CoercibleFrom(rows, ra_col, dec_col, n) ==
    IF n > Len(rows) THEN <<>>
    ELSE IF CoercionFails(rows[n][ra_col]) \/ CoercionFails(rows[n][dec_col])
         THEN CoercibleFrom(rows, ra_col, dec_col, n + 1)
         ELSE <<n - 1>> \o CoercibleFrom(rows, ra_col, dec_col, n + 1)

Emitted == IF procOut.written THEN Range(procOut.rows) ELSE {}

\* The records load_and_process has emitted.
ToyEmitted == IF toyOut.written THEN Range(toyOut.rows) ELSE {}

\* lo <= x < hi for a cell x holding a number
Between(x, lo, hi) == x.k = "num" /\ lo <= x.v /\ x.v < hi

(***************************************************************************)
(* C12.  In every emitted record mass_est is 0.6 for teff < 4000, 0.9 for  *)
(* 4000 <= teff < 5500, 1.2 for 5500 <= teff < 7000, 2.0 for               *)
(* 7000 <= teff < 10000, 5.0 for 10000 <= teff < 15000 and 10.0 otherwise; *)
(* two records with the same teff, of the same run or of two runs, have    *)
(* the same mass_est.                                                      *)
(***************************************************************************)
ClaimedMass(teff) ==
    IF teff.k = "num" /\ teff.v < 4000000 THEN 600
    ELSE IF Between(teff, 4000000, 5500000) THEN 900
    ELSE IF Between(teff, 5500000, 7000000) THEN 1200
    ELSE IF Between(teff, 7000000, 10000000) THEN 2000
    ELSE IF Between(teff, 10000000, 15000000) THEN 5000
    ELSE 10000

AllReturned == UNION {Range(procRuns[n].rows) : n \in DOMAIN procRuns}

C12_MassEstIsStepFunctionOfTeff ==
    /\ \A row \in Emitted \cup AllReturned :
          row["mass_est"] = Num(ClaimedMass(row["teff"]))
    /\ \A r1, r2 \in Emitted \cup AllReturned :
          r1["teff"] = r2["teff"] => r1["mass_est"] = r2["mass_est"]

\* A record with teff = 6999 K was emitted with mass_est = 1.2.
C12_Witness ==
    \E row \in Emitted : row["teff"] = Num(6999000) /\ row["mass_est"] = Num(1200)

(***************************************************************************)
(* C13.  In every emitted record star_class is cool_star for teff < 4000,  *)
(* sun_like for 4000 <= teff < 6500, hot_star for 6500 <= teff < 10000 and *)
(* very_hot_star for teff >= 10000; so it is one of these four classes,    *)
(* hot_star at 9000 K and cool_star at 3000 K.                             *)
(***************************************************************************)
ClaimedClass(teff) ==
    IF teff.k = "num" /\ teff.v < 4000000 THEN "cool_star"
    ELSE IF Between(teff, 4000000, 6500000) THEN "sun_like"
    ELSE IF Between(teff, 6500000, 10000000) THEN "hot_star"
    ELSE "very_hot_star"

C13_StarClassByTemperature ==
    \A row \in Emitted :
        /\ row["star_class"].k = "str"
        /\ row["star_class"].v = ClaimedClass(row["teff"])
        /\ row["star_class"].v \in {"cool_star", "sun_like", "hot_star", "very_hot_star"}
        /\ row["teff"] = Num(9000000) => row["star_class"].v = "hot_star"
        /\ row["teff"] = Num(3000000) => row["star_class"].v = "cool_star"

\* A record at the 6500 K breakpoint was emitted as hot_star.
C13_Witness ==
    \E row \in Emitted : row["teff"] = Num(6500000) /\ row["star_class"] = Str("hot_star")

(***************************************************************************)
(* C14.  estimate_evolution_probs(mass) is (0.98, 0.02, 0.00) for          *)
(* mass < 8, (0.10, 0.75, 0.15) for 8 <= mass < 20 and (0.00, 0.10, 0.90)  *)
(* for mass >= 20, and every emitted record holds the triple of its        *)
(* mass_est in prob_white_dwarf, prob_neutron_star, prob_black_hole, in    *)
(* that order.                                                             *)
(***************************************************************************)
ClaimedProbs(m) ==
    IF m.v < 8000 THEN <<980, 20, 0>>
    ELSE IF 8000 <= m.v /\ m.v < 20000 THEN <<100, 750, 150>>
    ELSE <<0, 100, 900>>

C14_EndpointProbabilitiesByMass ==
    /\ probs # <<>> => probs = ClaimedProbs(mass)
    /\ (probs # <<>> /\ mass = Num(25000)) => probs = <<0, 100, 900>>
    /\ \A row \in Emitted :
          <<row["prob_white_dwarf"], row["prob_neutron_star"], row["prob_black_hole"]>>
              = <<Num(ClaimedProbs(row["mass_est"])[1]),
                  Num(ClaimedProbs(row["mass_est"])[2]),
                  Num(ClaimedProbs(row["mass_est"])[3])>>

\* estimate_evolution_probs(25) returned (0.00, 0.10, 0.90).
C14_Witness == mass = Num(25000) /\ probs = <<0, 100, 900>>

(***************************************************************************)
(* C15.  In every record either deriver emits, each of the three endpoint  *)
(* probabilities is in [0, 1] and the three sum to 1.0.                    *)
(***************************************************************************)
IsProbabilityTriple(a, b, c) ==
    /\ \A x \in {a, b, c} : x.k = "num" /\ 0 <= x.v /\ x.v <= 1000
    /\ a.v + b.v + c.v = 1000

C15_ProbabilitiesSumToOne ==
    /\ \A row \in Emitted :
          IsProbabilityTriple(row["prob_white_dwarf"], row["prob_neutron_star"],
                              row["prob_black_hole"])
    /\ \A row \in ToyEmitted :
          IsProbabilityTriple(row["p_wd"], row["p_ns"], row["p_bh"])

\* load_and_process emitted a record of 8 solar masses and one of 25.
C15_Witness ==
    /\ \E row \in ToyEmitted : row["mass_solar"] = Num(8000) /\ row["p_ns"] = Num(700)
    /\ \E row \in ToyEmitted : row["mass_solar"] = Num(25000)

\* process_gaia_csv accepts the input: the file exists and has the required
\* columns.
ProcAccepts == procFile.exists /\ {"ra", "dec", "phot_g_mean_mag"} \subseteq procFile.cols

\* The input record passes the cleaning of nulls: it has a magnitude and,
\* where the table has a temperature column, a temperature.
HasTeffAndMag(rec) ==
    /\ rec["phot_g_mean_mag"].k # "nan"
    /\ "teff_gspphot" \in procFile.cols => rec["teff_gspphot"].k # "nan"

\* The input record has a temperature <= 0.
NonPositiveTeff(rec) ==
    /\ "teff_gspphot" \in procFile.cols
    /\ rec["teff_gspphot"].k = "num"
    /\ rec["teff_gspphot"].v <= 0

\* The emitted records that stem from the input record rec (ra holds the
\* number of the record in the input tables of the model).
EmittedOf(rec) == {row \in Emitted : row["ra"] = rec["ra"]}

(***************************************************************************)
(* C16.  A record with parallax 0 gets a null distance_pc and a null       *)
(* abs_mag_g, causes no error and is emitted; abs_mag_g is non-null only   *)
(* for a record whose parallax is present and nonzero, and then it is      *)
(* phot_g_mean_mag - 5*log10(distance_pc/10) with                          *)
(* distance_pc = 1000/parallax.                                            *)
(***************************************************************************)
C16_ZeroParallaxGivesNullMagnitude ==
    /\ ProcAccepts => procPc # "failed"
    /\ (procOut.written /\ "parallax" \in procFile.cols) =>
          /\ \A row \in Emitted :
                /\ row["parallax"] = Num(0) =>
                      row["distance_pc"] = NaN /\ row["abs_mag_g"] = NaN
                /\ row["abs_mag_g"].k # "nan" =>
                      /\ row["parallax"].k = "num"
                      /\ row["parallax"].v # 0
                      /\ row["distance_pc"] = Div1000(row["parallax"])
                      /\ row["abs_mag_g"] =
                            MinusFiveTimes(row["phot_g_mean_mag"],
                                           log10(Div10(Div1000(row["parallax"]))))
          /\ \A n \in DOMAIN procFile.rows :
                LET rec == procFile.rows[n] IN
                (rec["parallax"] = Num(0) /\ HasTeffAndMag(rec) /\ ~NonPositiveTeff(rec))
                    => EmittedOf(rec) # {}
    /\ (procOut.written /\ "parallax" \notin procFile.cols) =>
          \A row \in Emitted : row["abs_mag_g"] = NaN

\* A table with a record of parallax 0 and a record of parallax 100 mas
\* (10 pc, so abs_mag_g = phot_g_mean_mag = 12) was processed.
C16_Witness ==
    /\ "parallax" \in procFile.cols
    /\ \E row \in Emitted : row["parallax"] = Num(0) /\ row["abs_mag_g"] = NaN
    /\ \E row \in Emitted : row["parallax"] = Num(100000) /\ row["abs_mag_g"] = Num(12000)

(***************************************************************************)
(* C17, as stated.  process_gaia_csv does not fail on a record with        *)
(* teff <= 0 and does not lose it: the record is emitted with a defined    *)
(* log_teff (its temperature clamped to a small positive value).           *)
(***************************************************************************)
C17_NonPositiveTeffIsClamped ==
    /\ ProcAccepts => procPc # "failed"
    /\ procOut.written =>
          \A n \in DOMAIN procFile.rows :
              LET rec == procFile.rows[n] IN
              (NonPositiveTeff(rec) /\ HasTeffAndMag(rec)) =>
                  \E row \in EmittedOf(rec) : row["log_teff"].k \in {"num", "log10"}

(***************************************************************************)
(* C17, amended.  process_gaia_csv does not fail on a record with          *)
(* teff <= 0, but it removes the record before the logarithm is taken      *)
(* instead of clamping its temperature: no such record is emitted, and     *)
(* every emitted record has teff > 0 and a log_teff that is neither null   *)
(* nor minus infinity.                                                     *)
(***************************************************************************)
C17_NonPositiveTeffIsRemoved ==
    /\ ProcAccepts => procPc # "failed"
    /\ procOut.written =>
          /\ \A n \in DOMAIN procFile.rows :
                NonPositiveTeff(procFile.rows[n]) => EmittedOf(procFile.rows[n]) = {}
          /\ \A row \in Emitted :
                /\ row["teff"].k = "inf" \/ (row["teff"].k = "num" /\ row["teff"].v > 0)
                /\ row["log_teff"].k \in {"num", "log10", "inf"}

\* A table with a record of teff 0 and a record of teff 9000 K was
\* processed: only the second was emitted.
C17_Witness ==
    /\ procOut.written
    /\ Len(procFile.rows) = 2
    /\ NonPositiveTeff(procFile.rows[1])
    /\ HasTeffAndMag(procFile.rows[1])
    /\ Len(procOut.rows) = 1
    /\ procOut.rows[1]["teff"] = Num(9000000)

(***************************************************************************)
(* C18.  Every emitted record has the fields log_mass, log_teff,           *)
(* abs_mag_g, mass_est, star_class, prob_white_dwarf, prob_neutron_star    *)
(* and prob_black_hole, whichever of parallax, teff_gspphot, mh_gspphot    *)
(* the input has; without a parallax column abs_mag_g is present and null  *)
(* in every record.                                                        *)
(***************************************************************************)
FeatureFields ==
    {"log_mass", "log_teff", "abs_mag_g", "mass_est", "star_class",
     "prob_white_dwarf", "prob_neutron_star", "prob_black_hole"}

C18_FeatureFieldsAlwaysPresent ==
    procOut.written =>
        /\ FeatureFields \subseteq procOut.cols
        /\ \A row \in Emitted : FeatureFields \subseteq DOMAIN row
        /\ "parallax" \notin procFile.cols =>
              \A row \in Emitted : row["abs_mag_g"] = NaN

\* A table without parallax, teff_gspphot and mh_gspphot was processed and a
\* record emitted.
C18_Witness ==
    /\ procOut.written
    /\ procFile.cols \cap {"parallax", "teff_gspphot", "mh_gspphot"} = {}
    /\ Emitted # {}
    /\ "abs_mag_g" \in procOut.cols

(***************************************************************************)
(* C19.  Two runs of process_gaia_csv on the same input return identical   *)
(* tables.                                                                 *)
(***************************************************************************)
C19_RunsOnSameInputAgree ==
    \A m, n \in DOMAIN procRuns : procRuns[m] = procRuns[n]

(***************************************************************************)
(* C20.  Whenever run_crossmatch has failed, neither the joined nor the    *)
(* unmatched table has been written; whenever process_gaia_csv has failed, *)
(* the processed table has not been written; and run_crossmatch never ends *)
(* with the joined table written and the unmatched table not: while only   *)
(* the joined table is written the run is at the step that writes the      *)
(* unmatched table, and the joined table has the idx_gaia column that      *)
(* step reads.                                                             *)
(***************************************************************************)
C20_StagesFailAtomically ==
    /\ pc = "failed" => (outJoined = NoFile /\ outUnmatched = NoUnmatched)
    /\ procPc = "failed" => procOut = NoOutput
    /\ pc \in {"done", "failed"} => (outJoined.written <=> outUnmatched.written)
    /\ (outJoined.written /\ ~outUnmatched.written) =>
          (pc = "write_unmatched" /\ Plain("idx_gaia") \in outJoined.cols)

\* run_crossmatch loaded both catalogs, tried a radius and failed with the
\* no-match error; nothing was written.
C20_Witness ==
    /\ pc = "failed"
    /\ err.type = "RuntimeError"
    /\ i > 0
    /\ outJoined = NoFile
    /\ outUnmatched = NoUnmatched

(***************************************************************************)
(* C21, as stated.  What run_crossmatch returns holds the diagnostic       *)
(* counts (pairs, unique Gaia, unique SDSS) of every radius tried.         *)
(***************************************************************************)
DiagnosticCounts ==
    [n \in DOMAIN resultDetails |->
       [radius |-> resultDetails[n].key,
        count_pairs |-> CountOfItem(resultDetails[n]),
        unique_gaia |-> Get(resultDetails[n].val, "unique_gaia", 0),
        unique_sdss |-> Get(resultDetails[n].val, "unique_sdss", 0)]]

C21_ReturnCarriesCounts ==
    Returned => ret.details = DiagnosticCounts

(***************************************************************************)
(* C21, amended.  run_crossmatch returns the joined table of the selected  *)
(* radius and nothing else; the counts of every radius tried are kept in   *)
(* the local result_details (one item per radius, in the order tried, with *)
(* the number of pairs found within that radius) and printed, they are not *)
(* part of what the call returns.                                          *)
(***************************************************************************)
C21_ReturnIsJoinedTableOnly ==
    Returned =>
        /\ ret.details = <<>>
        /\ ret.cols = outJoined.cols
        /\ ret.rows = outJoined.rows
        /\ Len(resultDetails) = Len(radiusList)
        /\ \A n \in DOMAIN radiusList :
              /\ resultDetails[n].key = radiusList[n]
              /\ CountOfItem(resultDetails[n]) = Cardinality(PairsWithin(radiusList[n]))

\* run_crossmatch returned after trying two radii, one without any pair and
\* one with pairs.
C21_Witness ==
    /\ Returned
    /\ Len(radiusList) = 2
    /\ \E n \in DOMAIN resultDetails : CountOfItem(resultDetails[n]) = 0
    /\ \E n \in DOMAIN resultDetails : CountOfItem(resultDetails[n]) > 0

(***************************************************************************)
(* C22.  The joined table is written for the best radius, the radius with  *)
(* the largest match count among the radii tried: no radius tried has more *)
(* matches (pairs within the radius) than the selected one, and the joined *)
(* table has one row per pair within the selected radius.                  *)
(***************************************************************************)
C22_JoinedTableForLargestMatchCount ==
    Selected =>
        /\ best.radius \in Range(radiusList)
        /\ \A n \in DOMAIN radiusList :
              Cardinality(PairsWithin(radiusList[n])) <= Cardinality(PairsWithin(best.radius))
        /\ Cardinality(outJoined.rows) = Cardinality(PairsWithin(best.radius))

(***************************************************************************)
(* crossmatch of crossmatch_gaia_sdss.py: the nearest SDSS record of every *)
(* Gaia record, kept when it lies within radius_arcsec.                    *)
(***************************************************************************)
MaxNnRows == 2

\* line 21, line 22: set(['ra','dec']).issubset(df.columns)
has_ra_dec(cols) == {"ra", "dec"} \subseteq cols

\* lines 26-27: SkyCoord(ra=df['ra'].values*u.deg, dec=df['dec'].values*u.deg)
NnSkyCoord(f) == SkyCoord([df |-> [rows |-> f.rows], ra_col |-> "ra", dec_col |-> "dec"])

\* The catalogue records nearest to the point p.
Nearest(p, cat) ==
    {s \in DOMAIN cat : \A t \in DOMAIN cat : SepSq(p, cat[s]) <= SepSq(p, cat[t])}

\* line 30: c_gaia.match_to_catalog_sky(c_sdss): for every Gaia point the
\* index of one nearest catalogue point; which one of several equally near
\* points is not determined.  Indexes count from 1 here.
match_to_catalog_sky(c_gaia, c_sdss) ==
    {idx \in [DOMAIN c_gaia -> DOMAIN c_sdss] :
        \A p \in DOMAIN c_gaia : idx[p] \in Nearest(c_gaia[p], c_sdss)}

\* Mutant: every Gaia record is kept.
match_mask_all(c_gaia, c_sdss, idx, radius_arcsec) == [p \in DOMAIN c_gaia |-> TRUE]

\* lines 31-32: match_mask = sep2d.arcsecond <= radius_arcsec
match_mask(c_gaia, c_sdss, idx, radius_arcsec) ==
    [p \in DOMAIN c_gaia |-> Within(c_gaia[p], c_sdss[idx[p]], radius_arcsec)]

\* DataFrame.add_prefix
add_prefix(cols, pre) == {[pre |-> pre, base |-> c, suf |-> ""] : c \in cols}

\* lines 34-37: the kept Gaia rows and the SDSS rows idx names for them, both
\* renumbered from 0 and set side by side under prefixed column names.
nn_concat(g, s, idx, mask) ==
    LET kept == SelectSeq(Positions1(Len(g.rows)), LAMBDA p : mask[p])
        cols == add_prefix(g.cols, "gaia_") \cup add_prefix(s.cols, "sdss_")
    IN [cols |-> cols,
        rows |-> [k \in 1..Len(kept) |->
                    [c \in cols |-> IF c.pre = "gaia_" THEN g.rows[kept[k]][c.base]
                                    ELSE s.rows[idx[kept[k]]][c.base]]]]

NnRaise(type, message) ==
    /\ nnPc' = "failed"
    /\ nnErr' = [type |-> type, message |-> message, payload |-> <<>>]
    /\ UNCHANGED <<nnRadius, nnOut>>

\* lines 17-18: pd.read_csv of both files
NnRead ==
    /\ nnPc = "read"
    /\ IF ~gaiaFile.exists \/ ~sdssFile.exists
       THEN NnRaise("FileNotFoundError", "no such file")
       ELSE nnPc' = "columns" /\ UNCHANGED <<nnRadius, nnOut, nnErr>>
    /\ UNCHANGED <<crossVars, deriveVars, trainVars>>

\* lines 20-23: both tables must have the columns ra and dec
NnCheckColumns ==
    /\ nnPc = "columns"
    /\ IF ~has_ra_dec(gaiaFile.cols)
       THEN NnRaise("ValueError", "Gaia table is missing ra/dec columns")
       ELSE IF ~has_ra_dec(sdssFile.cols)
       THEN NnRaise("ValueError", "SDSS table is missing ra/dec columns")
       ELSE nnPc' = "coords" /\ UNCHANGED <<nnRadius, nnOut, nnErr>>
    /\ UNCHANGED <<crossVars, deriveVars, trainVars>>

\* lines 26-27: the coordinates of both tables.  A declination outside
\* [-90, 90] degrees is rejected.  The columns of a table without rows are
\* read as objects, not numbers: the multiplication by u.deg may reject them,
\* and an empty catalogue is rejected by the match of line 30 at the latest.
NnCoords ==
    /\ nnPc = "coords"
    /\ \/ /\ Len(gaiaFile.rows) = 0 \/ Len(sdssFile.rows) = 0
          /\ \E type \in {"IndexError", "ValueError"} : NnRaise(type, "empty table")
       \/ /\ Len(sdssFile.rows) > 0
          /\ IF ~NnSkyCoord(gaiaFile).ok \/ ~NnSkyCoord(sdssFile).ok
             THEN NnRaise("ValueError", "Latitude angle(s) must be within -90 deg <= angle <= 90 deg")
             ELSE nnPc' = "match" /\ UNCHANGED <<nnRadius, nnOut, nnErr>>
    /\ UNCHANGED <<crossVars, deriveVars, trainVars>>

\* lines 30-40: match, mask, join, write out_csv and return the joined table
NnMatch ==
    /\ nnPc = "match"
    /\ LET c_gaia == NnSkyCoord(gaiaFile).pts
           c_sdss == NnSkyCoord(sdssFile).pts
       IN \E idx \in match_to_catalog_sky(c_gaia, c_sdss) :
            LET matched == nn_concat(gaiaFile, sdssFile, idx,
                                     match_mask(c_gaia, c_sdss, idx, nnRadius))
            IN nnOut' = [written |-> TRUE, cols |-> matched.cols, rows |-> matched.rows]
    /\ nnPc' = "done"
    /\ UNCHANGED <<nnRadius, nnErr>>
    /\ UNCHANGED <<crossVars, deriveVars, trainVars>>

\* Tables of crossmatch: Gaia records at RA 180.0000 and 180.0003 degrees on
\* the equator and one at declination 100 degrees, SDSS records at RA
\* 180.0000 and 180.0006 degrees: the Gaia record at 180.0003 is 1.08 arcsec
\* from both SDSS records.
NnGaiaRowKinds ==
    {<<Num(1800000), Num(0)>>, <<Num(1800003), Num(0)>>, <<Num(1800000), Num(1000000)>>}
NnSdssRowKinds == {<<Num(1800000), Num(0)>>, <<Num(1800006), Num(0)>>}

NnGaiaColumnSets ==
    {{"ra", "dec", "source_id"}, {"RA", "DEC", "source_id"}, {"ra", "source_id"}}
NnSdssColumnSets == {{"ra", "dec", "objid"}, {"RA", "DEC", "objid"}}

NnGaiaFiles ==
    {MissingFile} \cup UNION {Files(cols, NnGaiaRowKinds, MaxNnRows) : cols \in NnGaiaColumnSets}
NnSdssFiles ==
    {MissingFile} \cup UNION {Files(cols, NnSdssRowKinds, MaxNnRows) : cols \in NnSdssColumnSets}

\* crossmatch is called on two files with a radius; nothing else runs.
InitNearest ==
    /\ gaiaFile \in NnGaiaFiles
    /\ sdssFile \in NnSdssFiles
    /\ radiusList = <<>>
    /\ pc = "idle"
    /\ gaia = NotLoaded
    /\ sdss = NotLoaded
    /\ coords = [gaia |-> <<>>, sdss |-> <<>>]
    /\ i = 0
    /\ best = NoBest
    /\ resultDetails = <<>>
    /\ outJoined = NoFile
    /\ outUnmatched = NoUnmatched
    /\ printed = <<>>
    /\ err = NoErr
    /\ ret = NoRet
    /\ DeriveIdle
    /\ TrainIdle
    /\ nnPc = "read"
    /\ nnRadius \in Radii
    /\ nnOut = NoOutput
    /\ nnErr = NoErr

NextNearest ==
    \/ NnRead
    \/ NnCheckColumns
    \/ NnCoords
    \/ NnMatch

SpecNearest == InitNearest /\ [][NextNearest]_vars

\* The Gaia record p has a nearest SDSS record within the radius.
NearestWithinRadius(p) ==
    \E s \in Nearest(NnSkyCoord(gaiaFile).pts[p], NnSkyCoord(sdssFile).pts) :
        Within(NnSkyCoord(gaiaFile).pts[p], NnSkyCoord(sdssFile).pts[s], nnRadius)

\* The Gaia record and the SDSS record an output row holds.
GaiaPart(row) == [c \in gaiaFile.cols |-> row[[pre |-> "gaia_", base |-> c, suf |-> ""]]]
SdssPart(row) == [c \in sdssFile.cols |-> row[[pre |-> "sdss_", base |-> c, suf |-> ""]]]

\* C23: crossmatch emits one row for every Gaia record whose nearest SDSS
\* record is within radius_arcsec and none for any other Gaia record; every
\* output row holds, under gaia_ and sdss_, a Gaia record and an SDSS record
\* nearest to it; and the call fails with a ValueError, writing nothing, when
\* either table lacks a column named exactly ra or dec.
C23_NearestNeighbourWithinRadius ==
    /\ nnPc = "done" =>
         /\ nnOut.written
         /\ Len(nnOut.rows) <= Len(gaiaFile.rows)
         /\ \A p \in DOMAIN gaiaFile.rows :
               Cardinality({k \in DOMAIN nnOut.rows :
                              GaiaPart(nnOut.rows[k]) = gaiaFile.rows[p]})
                 = IF NearestWithinRadius(p) THEN 1 ELSE 0
         /\ \A k \in DOMAIN nnOut.rows :
               \E p \in DOMAIN gaiaFile.rows :
                 /\ GaiaPart(nnOut.rows[k]) = gaiaFile.rows[p]
                 /\ \E s \in Nearest(NnSkyCoord(gaiaFile).pts[p], NnSkyCoord(sdssFile).pts) :
                       SdssPart(nnOut.rows[k]) = sdssFile.rows[s]
    /\ (/\ gaiaFile.exists
        /\ sdssFile.exists
        /\ ~(has_ra_dec(gaiaFile.cols) /\ has_ra_dec(sdssFile.cols))) =>
         /\ nnPc \in {"read", "columns", "failed"}
         /\ nnPc = "failed" => nnErr.type = "ValueError"
         /\ ~nnOut.written

\* A call on two Gaia records and two SDSS records that kept one Gaia record.
C23_Witness ==
    /\ nnPc = "done"
    /\ Len(gaiaFile.rows) = 2
    /\ Len(sdssFile.rows) = 2
    /\ Len(nnOut.rows) = 1

(***************************************************************************)
(* simulate_one of simulate_evolution.py and the endpoint labels of the    *)
(* training scripts, each called on its own with the same mass.  Masses    *)
(* are numbers in thousandths of a solar mass; a stage of a timeline holds *)
(* its mass in units of 0.00001 solar masses and its temperature in        *)
(* thousandths of a kelvin, so that every product below is exact.          *)
(***************************************************************************)
Max(a, b) == IF a > b THEN a ELSE b

\* x * (tenths / 10) for a temperature x
Tenths(x, tenths) == (x * tenths) \div 10

\* Mutant: every mass below 8 takes the planetary-nebula track.
simulate_one_no_low_branch(row) ==
    LET m == row.mass_solar.v
        t == row.teff.v
        first == [stage |-> "main_sequence", mass |-> m * 100, teff |-> t,
                  notes |-> "hydrogen burning"]
    IN
    IF m < Milli(8) THEN
        [source_id |-> row.source_id.v,
         timeline |-> <<first,
                        [stage |-> "red_giant", mass |-> m * 95, teff |-> Tenths(t, 5)],
                        [stage |-> "planetary_nebula", mass |-> m * 60, teff |-> Milli(15000)],
                        [stage |-> "white_dwarf", mass |-> 60 * m, teff |-> Milli(8000)]>>,
         end_state |-> "white_dwarf"]
    ELSE IF m >= Milli(20) THEN
        [source_id |-> row.source_id.v,
         timeline |-> <<first,
                        [stage |-> "supergiant", mass |-> m * 90, teff |-> Tenths(t, 8)],
                        [stage |-> "core_collapse", mass |-> m * 50, teff |-> Milli(1000000),
                         notes |-> "likely black hole"]>>,
         end_state |-> "black_hole"]
    ELSE
        [source_id |-> row.source_id.v,
         timeline |-> <<first,
                        [stage |-> "supergiant", mass |-> m * 90, teff |-> Tenths(t, 8)],
                        [stage |-> "core_collapse", mass |-> m * 70, teff |-> Milli(1000000),
                         notes |-> "likely neutron star"]>>,
         end_state |-> "neutron_star"]

\* simulate_one(row), for a row whose mass_solar and teff are numbers
simulate_one(row) ==
    LET m == row.mass_solar.v
        t == row.teff.v
        first == [stage |-> "main_sequence", mass |-> m * 100, teff |-> t,
                  notes |-> "hydrogen burning"]
    IN
    IF m < 800 THEN
        [source_id |-> row.source_id.v,
         timeline |-> <<first,
                        [stage |-> "red_giant", mass |-> m * 98, teff |-> Tenths(t, 6)],
                        [stage |-> "white_dwarf", mass |-> Max(50000, m * 60),
                         teff |-> Milli(10000)]>>,
         end_state |-> "white_dwarf"]
    ELSE IF m < Milli(8) THEN
        [source_id |-> row.source_id.v,
         timeline |-> <<first,
                        [stage |-> "red_giant", mass |-> m * 95, teff |-> Tenths(t, 5)],
                        [stage |-> "planetary_nebula", mass |-> m * 60, teff |-> Milli(15000)],
                        [stage |-> "white_dwarf", mass |-> 60 * m, teff |-> Milli(8000)]>>,
         end_state |-> "white_dwarf"]
    ELSE IF m >= Milli(20) THEN
        [source_id |-> row.source_id.v,
         timeline |-> <<first,
                        [stage |-> "supergiant", mass |-> m * 90, teff |-> Tenths(t, 8)],
                        [stage |-> "core_collapse", mass |-> m * 50, teff |-> Milli(1000000),
                         notes |-> "likely black hole"]>>,
         end_state |-> "black_hole"]
    ELSE
        [source_id |-> row.source_id.v,
         timeline |-> <<first,
                        [stage |-> "supergiant", mass |-> m * 90, teff |-> Tenths(t, 8)],
                        [stage |-> "core_collapse", mass |-> m * 70, teff |-> Milli(1000000),
                         notes |-> "likely neutron star"]>>,
         end_state |-> "neutron_star"]

\* train_model.py
label_for(m) ==
    IF Lt(m, Milli(8)) THEN "white_dwarf"
    ELSE IF Lt(m, Milli(20)) THEN "neutron_star"
    ELSE "black_hole"

\* classifier_rf.py: its own label_for
label_for_classifier_rf(m) ==
    IF Lt(m, Milli(8)) THEN "white_dwarf"
    ELSE IF Lt(m, Milli(20)) THEN "neutron_star"
    ELSE "black_hole"

SimulateOne ==
    /\ simRow # NoRow
    /\ ~sim.returned
    /\ LET r == simulate_one(simRow) IN
       sim' = [returned |-> TRUE, source_id |-> r.source_id,
               timeline |-> r.timeline, end_state |-> r.end_state]
    /\ UNCHANGED <<simRow, labels, prep>>
    /\ UNCHANGED <<crossVars, deriveVars, nnVars>>

CallLabelForMass ==
    /\ mass.k = "num"
    /\ "label_for_mass" \notin labels.called
    /\ labels' = [labels EXCEPT !.label_for_mass = label_for_mass(mass),
                                !.called = @ \cup {"label_for_mass"}]
    /\ UNCHANGED <<simRow, sim, prep>>
    /\ UNCHANGED <<crossVars, deriveVars, nnVars>>

CallLabelFor ==
    /\ mass.k = "num"
    /\ "label_for" \notin labels.called
    /\ labels' = [labels EXCEPT !.label_for = label_for(mass),
                                !.called = @ \cup {"label_for"}]
    /\ UNCHANGED <<simRow, sim, prep>>
    /\ UNCHANGED <<crossVars, deriveVars, nnVars>>

CallLabelForClassifierRf ==
    /\ mass.k = "num"
    /\ "label_for_classifier_rf" \notin labels.called
    /\ labels' = [labels EXCEPT !.label_for_classifier_rf = label_for_classifier_rf(mass),
                                !.called = @ \cup {"label_for_classifier_rf"}]
    /\ UNCHANGED <<simRow, sim, prep>>
    /\ UNCHANGED <<crossVars, deriveVars, nnVars>>

CallEndProb ==
    /\ mass.k = "num"
    /\ "end_prob" \notin labels.called
    /\ labels' = [labels EXCEPT !.end_prob = end_prob(mass),
                                !.called = @ \cup {"end_prob"}]
    /\ UNCHANGED <<simRow, sim, prep>>
    /\ UNCHANGED <<crossVars, deriveVars, nnVars>>

\* Masses on both sides of every threshold of simulate_one and of the label
\* functions, from the 0.1 to the 80 solar masses of example_toy_data.py,
\* and a mass of zero.
SimMasses == Masses \cup {Num(m) : m \in {100, 300, 510, 520, 799, 800, 1000, 80000}}

SimTeffs == {Num(Milli(t)) : t \in {2500, 6000, 50000}}

SimRows ==
    {[mass_solar |-> m, teff |-> t, source_id |-> Num(7)] : m \in SimMasses, t \in SimTeffs}

\* simulate_one and every label function are called on the mass of one row.
InitSimulate ==
    /\ CrossIdle
    /\ NearestIdle
    /\ ProcIdle
    /\ ToyIdle
    /\ simRow \in SimRows
    /\ mass = simRow.mass_solar
    /\ probs = <<>>
    /\ sim = NoSim
    /\ labels = NoLabels
    /\ prep = NoPrep

NextSimulate ==
    \/ SimulateOne
    \/ CallLabelForMass
    \/ CallLabelFor
    \/ CallLabelForClassifierRf
    \/ CallEndProb
    \/ CallEstimateEvolutionProbs

SpecSimulate == InitSimulate /\ [][NextSimulate]_vars

\* The stage names of a timeline, in order.
Stages(timeline) == [n \in DOMAIN timeline |-> timeline[n].stage]

\* The stage names the mass m (in thousandths) is said to go through.
ClaimedStages(m) ==
    IF m < 800 THEN <<"main_sequence", "red_giant", "white_dwarf">>
    ELSE IF m < Milli(8)
    THEN <<"main_sequence", "red_giant", "planetary_nebula", "white_dwarf">>
    ELSE <<"main_sequence", "supergiant", "core_collapse">>

\* The endpoint the mass m (in thousandths) is said to have.
ClaimedEndpoint(m) ==
    IF m < Milli(8) THEN "white_dwarf"
    ELSE IF m < Milli(20) THEN "neutron_star"
    ELSE "black_hole"

\* C24: the timeline simulate_one returns starts with main_sequence at the
\* input mass and temperature and goes on through the stages of the mass
\* range of the input; end_state is white_dwarf exactly when the last stage
\* is white_dwarf, neutron_star for masses from 8 to below 20 and black_hole
\* from 20.
C24_TimelineStagesByMass ==
    sim.returned =>
        /\ sim.timeline[1].stage = "main_sequence"
        /\ sim.timeline[1].mass = simRow.mass_solar.v * 100
        /\ sim.timeline[1].teff = simRow.teff.v
        /\ Stages(sim.timeline) = ClaimedStages(simRow.mass_solar.v)
        /\ (sim.end_state = "white_dwarf"
              <=> sim.timeline[Len(sim.timeline)].stage = "white_dwarf")
        /\ (sim.end_state = "neutron_star"
              <=> simRow.mass_solar.v >= Milli(8) /\ simRow.mass_solar.v < Milli(20))
        /\ (sim.end_state = "black_hole" <=> simRow.mass_solar.v >= Milli(20))

\* simulate_one has returned for a mass below 0.8.
C24_Witness ==
    /\ sim.returned
    /\ simRow.mass_solar.v = 300
    /\ Len(sim.timeline) = 3

\* The endpoint whose probability is strictly the highest, if there is one.
StrictlyHighest(wd, ns, bh) ==
    IF wd > ns /\ wd > bh THEN "white_dwarf"
    ELSE IF ns > wd /\ ns > bh THEN "neutron_star"
    ELSE IF bh > wd /\ bh > ns THEN "black_hole"
    ELSE "none"

\* C28: for one mass, the end_state of simulate_one, the labels of
\* label_for_mass and of both label_for, and the strictly most probable
\* endpoint of estimate_evolution_probs and of end_prob are the same:
\* white_dwarf below 8, neutron_star from 8 to below 20, black_hole from 20.
C28_EndpointsAgree ==
    /\ sim.returned => sim.end_state = ClaimedEndpoint(mass.v)
    /\ "label_for_mass" \in labels.called => labels.label_for_mass = ClaimedEndpoint(mass.v)
    /\ "label_for" \in labels.called => labels.label_for = ClaimedEndpoint(mass.v)
    /\ "label_for_classifier_rf" \in labels.called =>
          labels.label_for_classifier_rf = ClaimedEndpoint(mass.v)
    /\ "end_prob" \in labels.called =>
          StrictlyHighest(labels.end_prob.wd, labels.end_prob.ns, labels.end_prob.bh)
            = ClaimedEndpoint(mass.v)
    /\ probs # <<>> => StrictlyHighest(probs[1], probs[2], probs[3]) = ClaimedEndpoint(mass.v)

\* Every function has been called on a mass of exactly 8.
C28_Witness ==
    /\ mass = Num(Milli(8))
    /\ sim.returned
    /\ "label_for_mass" \in labels.called
    /\ "label_for" \in labels.called
    /\ "label_for_classifier_rf" \in labels.called
    /\ "end_prob" \in labels.called
    /\ probs # <<>>

\* C29: in a timeline for a positive input mass, no stage has a larger mass
\* than the stage before it.
C29_MassNeverIncreases ==
    (sim.returned /\ simRow.mass_solar.v > 0) =>
        \A n \in 1..(Len(sim.timeline) - 1) :
            sim.timeline[n + 1].mass <= sim.timeline[n].mass

\* The rows of the input of load_and_process that have a mass and a temperature.
ToyComplete ==
    SelectSeq(toyFile.rows,
              LAMBDA row : notnull(row["mass_solar"]) /\ notnull(row["teff"]))

\* C25: load_and_process emits the input rows that have both a mass_solar and
\* a teff, each once and in order, and no other row; the logarithms are taken
\* of the mass raised to at least 0.001 and of the temperature raised to at
\* least 1, so that a mass or temperature of zero or below neither removes
\* the row nor makes the call fail.
C25_OneRecordPerCompleteRow ==
    /\ toyPc = "done" =>
         /\ toyOut.written
         /\ Len(toyOut.rows) = Len(ToyComplete)
         /\ \A n \in DOMAIN toyOut.rows :
              /\ \A c \in toyFile.cols : toyOut.rows[n][c] = ToyComplete[n][c]
              /\ toyOut.rows[n]["log_mass"] =
                   IF ToyComplete[n]["mass_solar"].v < 1 THEN Num(Milli(-3))
                   ELSE log10(ToyComplete[n]["mass_solar"])
              /\ toyOut.rows[n]["log_teff"] =
                   IF ToyComplete[n]["teff"].v < Milli(1) THEN Num(0)
                   ELSE log10(ToyComplete[n]["teff"])
    /\ (toyFile.exists /\ {"mass_solar", "teff"} \subseteq toyFile.cols) =>
         toyPc # "failed"

\* A run on a row of mass zero or below and a row without mass: one record.
C25_Witness ==
    /\ toyPc = "done"
    /\ Len(toyFile.rows) = 2
    /\ Len(toyOut.rows) = 1
    /\ toyOut.rows[1]["mass_solar"].v <= 0
    /\ toyOut.rows[1]["log_mass"] = Num(Milli(-3))

\* The cell x holds no value.
IsNull(x) == x.k = "nan"

\* The cell x holds a number above zero.
StrictlyPositive(x) ==
    \/ x.k = "num" /\ x.v > 0
    \/ x.k = "ratio" /\ (x.v[1] > 0) = (x.v[2] > 0)
    \/ x.k = "inf"

\* C26: in every record process_gaia_csv emits, distance_pc is null or above
\* zero, whatever the parallax of the input row.
C26_DistanceNullOrPositive ==
    \A row \in Emitted :
        "distance_pc" \in procOut.cols =>
            IsNull(row["distance_pc"]) \/ StrictlyPositive(row["distance_pc"])

\* C27: every record process_gaia_csv emits has a mass_est of 0.6, 0.9, 1.2,
\* 2.0, 5.0 or 10.0; its probabilities are (0.98, 0.02, 0.00) when its teff is
\* below 15000 and (0.10, 0.75, 0.15) otherwise, never (0.00, 0.10, 0.90);
\* and label_for_mass of its mass_est is never black_hole.
C27_MassEstBelowBlackHoleRange ==
    \A row \in Emitted :
        /\ row["mass_est"] \in {Num(m) : m \in {600, 900, 1200, 2000, 5000, 10000}}
        /\ Lt(row["mass_est"], Milli(20))
        /\ <<row["prob_white_dwarf"], row["prob_neutron_star"], row["prob_black_hole"]>>
             = IF Lt(row["teff"], Milli(15000))
               THEN <<Num(980), Num(20), Num(0)>>
               ELSE <<Num(100), Num(750), Num(150)>>
        /\ label_for_mass(row["mass_est"]) # "black_hole"

\* A record of exactly 15000 K has been emitted: 10 solar masses, neutron_star.
C27_Witness ==
    /\ \E row \in Emitted : row["teff"] = Num(Milli(15000))
                            /\ label_for_mass(row["mass_est"]) = "neutron_star"

\* prepare_data has computed df_clean.
PrepCleaned ==
    \/ prep.pc \in {"numeric", "encode", "done"}
    \/ prep.pc = "failed" /\ prep.err.message = "Found array with 0 sample(s)"

\* prepare_data has computed X.
PrepFilled ==
    \/ prep.pc \in {"encode", "done"}
    \/ prep.pc = "failed" /\ prep.err.message = "Found array with 0 sample(s)"

\* C30: prepare_data keeps exactly the rows of its input in which every chosen
\* feature column holds a value; abs_mag_g is chosen whenever the input has
\* that column, so that no row is kept of a table process_gaia_csv derived
\* from an input without parallax; and the median fill leaves every numeric
\* feature value as it was.
C30_KeepsRowsWithEveryFeature ==
    /\ PrepCleaned =>
         /\ prep.df_clean =
              SelectSeq(prep.df.rows,
                        LAMBDA row : \A c \in Range(prep.feature_cols) : ~IsNull(row[c]))
         /\ "abs_mag_g" \in prep.df.cols => "abs_mag_g" \in Range(prep.feature_cols)
         /\ "parallax" \notin procFile.cols => Len(prep.df_clean) = 0
    /\ PrepFilled =>
         \A n \in DOMAIN prep.df_clean : \A c \in Range(prep.feature_cols) :
            to_numeric(prep.df_clean[n][c]) # NaN =>
                prep.X[n][c] = to_numeric(prep.df_clean[n][c])

\* prepare_data has read a table with a row, derived from an input without
\* parallax, and has kept nothing of it.
C30_Witness ==
    /\ PrepFilled
    /\ "parallax" \notin procFile.cols
    /\ Len(prep.df.rows) > 0
    /\ Len(prep.df_clean) = 0

====
